---- MODULE Spec2Model ----
(***************************************************************************)
(* A model of rust-redis-server: the RESP value model and its encoder      *)
(* (src/resp), the command parser and dispatcher (src/cmd), the backend    *)
(* store (src/backend) and the per-connection handler (src/network.rs).    *)
(*                                                                         *)
(* A byte is a one-character string; a byte string (Vec<u8>, BytesMut,     *)
(* String) is a sequence of bytes.  The token "xFF" stands for one byte    *)
(* that is not valid UTF-8.                                                *)
(***************************************************************************)
EXTENDS Integers, Sequences, FiniteSets, TLC

(***************************************************************************)
(* Bytes and text                                                          *)
(***************************************************************************)
CRLF == <<"\r", "\n">>

DigitChars == <<"0", "1", "2", "3", "4", "5", "6", "7", "8", "9">>

IsDigit(c) == \E i \in 1..10 : DigitChars[i] = c

DigitVal(c) == (CHOOSE i \in 1..10 : DigitChars[i] = c) - 1

\* The printable ASCII characters in code order, from 0x20 to 0x7E (the token
\* x60 stands for the grave accent).
Ascii ==
  <<" ", "!", "\"", "#", "$", "%", "&", "'", "(", ")", "*", "+", ",", "-",
    ".", "/", "0", "1", "2", "3", "4", "5", "6", "7", "8", "9", ":", ";",
    "<", "=", ">", "?", "@", "A", "B", "C", "D", "E", "F", "G", "H", "I",
    "J", "K", "L", "M", "N", "O", "P", "Q", "R", "S", "T", "U", "V", "W",
    "X", "Y", "Z", "[", "\\", "]", "^", "_", "x60", "a", "b", "c", "d", "e",
    "f", "g", "h", "i", "j", "k", "l", "m", "n", "o", "p", "q", "r", "s",
    "t", "u", "v", "w", "x", "y", "z", "{", "|", "}", "~">>

AsciiCode ==
  [c \in {Ascii[i] : i \in 1..Len(Ascii)} |->
     31 + (CHOOSE i \in 1..Len(Ascii) : Ascii[i] = c)]

\* The numeric value of a byte.
ByteVal(c) ==
  IF c = "\n" THEN 10
  ELSE IF c = "\r" THEN 13
  ELSE IF c = "xFF" THEN 255
  ELSE AsciiCode[c]

\* u8::to_ascii_lowercase: A..Z move to a..z, every other byte stays.
u8_to_ascii_lowercase(c) ==
  IF ByteVal(c) >= 65 /\ ByteVal(c) <= 90 THEN Ascii[ByteVal(c) + 32 - 31] ELSE c

to_ascii_lowercase(bs) == [i \in 1..Len(bs) |-> u8_to_ascii_lowercase(bs[i])]

\* Ord for String and Vec<u8>: lexicographic on byte values.
RECURSIVE str_lt(_, _)
str_lt(a, b) ==
  IF b = <<>> THEN FALSE
  ELSE IF a = <<>> THEN TRUE
  ELSE IF ByteVal(Head(a)) # ByteVal(Head(b)) THEN ByteVal(Head(a)) < ByteVal(Head(b))
  ELSE str_lt(Tail(a), Tail(b))

\* Display for an unsigned integer: decimal digits, no sign, no leading zero.
RECURSIVE fmt_unsigned(_)
fmt_unsigned(n) ==
  IF n < 10 THEN <<DigitChars[n + 1]>>
  ELSE fmt_unsigned(n \div 10) \o <<DigitChars[(n % 10) + 1]>>

\* Display for i64: a leading '-' for a negative number, no '+'.
fmt_i64(n) == IF n < 0 THEN <<"-">> \o fmt_unsigned(-n) ELSE fmt_unsigned(n)

\* String::from_utf8: fails on a byte sequence that is not valid UTF-8.
is_utf8(bs) == \A i \in 1..Len(bs) : bs[i] # "xFF"

(***************************************************************************)
(* The value model: RespFrame and its twelve variants                      *)
(***************************************************************************)
SimpleString(s) == [t |-> "SimpleString", v |-> s]

SimpleError(s) == [t |-> "Error", v |-> s]

Integer(n) == [t |-> "Integer", v |-> n]

BulkString(b) == [t |-> "BulkString", v |-> b]

RespNullBulkString == [t |-> "NullBulkString", v |-> <<>>]

RespArray(xs) == [t |-> "Array", v |-> xs]

RespNull == [t |-> "Null", v |-> <<>>]

RespNullArray == [t |-> "NullArray", v |-> <<>>]

Boolean(b) == [t |-> "Boolean", v |-> b]

\* An f64 is its shortest decimal form: sign, significant digits d1 d2 .. dn
\* and the decimal exponent e of d1, so the value is d1.d2..dn * 10^e.  Zero
\* is the single digit 0 with exponent 0.
F64(neg, digs, e) == [neg |-> neg, digs |-> digs, exp |-> e]

Double(f) == [t |-> "Double", v |-> f]

\* RespMap(BTreeMap<String, RespFrame>): a function from its keys to values.
RespMap(m) == [t |-> "Map", v |-> m]

RespSet(xs) == [t |-> "Set", v |-> xs]

\* RespMap::new(): the empty BTreeMap.
RespMap_new == [k \in {} |-> RespNull]

\* BTreeMap::insert through DerefMut: the entry of k is set, the others stay.
BTreeMap_insert(m, k, v) == [j \in DOMAIN m \cup {k} |-> IF j = k THEN v ELSE m[j]]

\* The map after the entries of m are inserted by key in the order ks.
RECURSIVE RespMap_inserted(_, _, _)
RespMap_inserted(acc, m, ks) ==
  IF ks = <<>> THEN acc
  ELSE RespMap_inserted(BTreeMap_insert(acc, Head(ks), m[Head(ks)]), m, Tail(ks))

\* The keys taken largest first.
RECURSIVE BTreeMap_keys_rev(_)
BTreeMap_keys_rev(S) ==
  IF S = {} THEN <<>>
  ELSE LET k == CHOOSE x \in S : \A y \in S \ {x} : str_lt(y, x)
       IN  <<k>> \o BTreeMap_keys_rev(S \ {k})

\* BTreeMap iteration: the keys in ascending order.
RECURSIVE BTreeMap_keys(_)
BTreeMap_keys(S) ==
  IF S = {} THEN <<>>
  ELSE LET k == CHOOSE x \in S : \A y \in S \ {x} : str_lt(x, y)
       IN  <<k>> \o BTreeMap_keys(S \ {k})

(***************************************************************************)
(* The encoder (src/resp/encode.rs)                                        *)
(***************************************************************************)
\* Simple strings: +OK\r\n
SimpleString_encode(s) == <<"+">> \o s \o CRLF

\* Integers: the sign is "" for a negative number (Display writes its '-')
\* and "+" otherwise.
i64_encode_plus(n) == <<":">> \o fmt_i64(n) \o CRLF

i64_encode(n) ==
  LET sign == IF n < 0 THEN <<>> ELSE <<"+">>
  IN  <<":">> \o sign \o fmt_i64(n) \o CRLF

\* Simple errors: -Error message\r\n
SimpleError_encode(s) == <<"-">> \o s \o CRLF

\* Bulk strings: $<length>\r\n<data>\r\n
BulkString_encode(b) == <<"$">> \o fmt_unsigned(Len(b)) \o CRLF \o b \o CRLF

RespNullBulkString_encode == <<"$", "-", "1">> \o CRLF

RespNullArray_encode == <<"*", "-", "1">> \o CRLF

RespNull_encode == <<"_">> \o CRLF

\* Booleans: #<t|f>\r\n
bool_encode(b) == <<"#", IF b THEN "t" ELSE "f">> \o CRLF

fmt_digits(ds) == [i \in 1..Len(ds) |-> DigitChars[ds[i] + 1]]

zeros(n) == [i \in 1..n |-> "0"]

f64_is_zero(f) == f.digs = <<0>>

\* self.abs() > 1e+8
f64_abs_gt_1e8(f) ==
  ~f64_is_zero(f) /\ (f.exp > 8 \/ (f.exp = 8 /\ f.digs # <<1>>))

\* self.abs() < 1e-8
f64_abs_lt_1e_8(f) == f64_is_zero(f) \/ f.exp < -8

\* format!("{:+e}"): sign, d1[.d2..dn], 'e', exponent.
fmt_f64_lower_exp_plus(f) ==
  <<IF f.neg THEN "-" ELSE "+">>
    \o <<DigitChars[f.digs[1] + 1]>>
    \o (IF Len(f.digs) > 1 THEN <<".">> \o fmt_digits(Tail(f.digs)) ELSE <<>>)
    \o <<"e">> \o fmt_i64(f.exp)

\* format!("{}"): fixed notation, '-' for a negative number and no '+'.
fmt_f64_display(f) ==
  LET n == Len(f.digs)
      body ==
        IF f.exp >= 0
        THEN IF n <= f.exp + 1
             THEN fmt_digits(f.digs) \o zeros(f.exp + 1 - n)
             ELSE fmt_digits(SubSeq(f.digs, 1, f.exp + 1)) \o <<".">>
                    \o fmt_digits(SubSeq(f.digs, f.exp + 2, n))
        ELSE <<"0", ".">> \o zeros(-f.exp - 1) \o fmt_digits(f.digs)
  IN  (IF f.neg THEN <<"-">> ELSE <<>>) \o body

\* Doubles: scientific notation above 1e8 and below 1e-8, fixed otherwise.
f64_encode(f) ==
  IF f64_abs_gt_1e8(f) \/ f64_abs_lt_1e_8(f)
  THEN <<",">> \o fmt_f64_lower_exp_plus(f) \o CRLF
  ELSE LET sign == IF f.neg THEN <<>> ELSE <<"+">>
       IN  <<",">> \o sign \o fmt_f64_display(f) \o CRLF

RECURSIVE RespFrame_encode(_)
RECURSIVE encode_items(_)
RECURSIVE encode_entries(_, _)
\* for item in self.0 { buf.extend_from_slice(&item.encode()) }
encode_items(xs) ==
  IF xs = <<>> THEN <<>>
  ELSE RespFrame_encode(Head(xs)) \o encode_items(Tail(xs))

\* for (k, v) in self.0 { SimpleString::new(k).encode(); v.encode() }
encode_entries(m, ks) ==
  IF ks = <<>> THEN <<>>
  ELSE SimpleString_encode(Head(ks)) \o RespFrame_encode(m[Head(ks)])
         \o encode_entries(m, Tail(ks))

\* Arrays: *<number-of-elements>\r\n<element-1>...<element-n>
RespArray_encode(xs) == <<"*">> \o fmt_unsigned(Len(xs)) \o CRLF \o encode_items(xs)

\* Maps: %<number-of-entries>\r\n<key-1><value-1>...<key-n><value-n>
RespMap_encode(m) ==
  <<"%">> \o fmt_unsigned(Cardinality(DOMAIN m)) \o CRLF
    \o encode_entries(m, BTreeMap_keys(DOMAIN m))

\* Sets: ~<number-of-elements>\r\n<element-1>...<element-n>
RespSet_encode(xs) == <<"~">> \o fmt_unsigned(Len(xs)) \o CRLF \o encode_items(xs)

\* enum_dispatch(RespEncode) for RespFrame.
RespFrame_encode(x) ==
  CASE x.t = "SimpleString" -> SimpleString_encode(x.v)
    [] x.t = "Error" -> SimpleError_encode(x.v)
    [] x.t = "Integer" -> i64_encode(x.v)
    [] x.t = "BulkString" -> BulkString_encode(x.v)
    [] x.t = "NullBulkString" -> RespNullBulkString_encode
    [] x.t = "Array" -> RespArray_encode(x.v)
    [] x.t = "Null" -> RespNull_encode
    [] x.t = "NullArray" -> RespNullArray_encode
    [] x.t = "Boolean" -> bool_encode(x.v)
    [] x.t = "Double" -> f64_encode(x.v)
    [] x.t = "Map" -> RespMap_encode(x.v)
    [] x.t = "Set" -> RespSet_encode(x.v)

(***************************************************************************)
(* The decoder.  src/resp/mod.rs declares `mod decode`, whose file is not   *)
(* among the sources; it is modelled from the decoder contract: one frame   *)
(* is read from the front of the buffer, the outcome is Parsed(frame, n),   *)
(* Incomplete or Malformed.                                                 *)
(***************************************************************************)
Incomplete == [kind |-> "Incomplete"]

Malformed == [kind |-> "Malformed"]

Parsed(frame, next) == [kind |-> "Parsed", frame |-> frame, next |-> next]

\* The index of the '\r' of the first CRLF at or after `from`, or 0.
find_crlf(buf, from) ==
  LET S == {i \in from..(Len(buf) - 1) : buf[i] = "\r" /\ buf[i + 1] = "\n"}
  IN  IF S = {} THEN 0 ELSE CHOOSE i \in S : \A j \in S : i <= j

all_digits(bs) == bs # <<>> /\ \A i \in 1..Len(bs) : IsDigit(bs[i])

RECURSIVE parse_unsigned(_)
parse_unsigned(bs) ==
  IF bs = <<>> THEN 0
  ELSE 10 * parse_unsigned(SubSeq(bs, 1, Len(bs) - 1)) + DigitVal(bs[Len(bs)])

is_sign(c) == c = "+" \/ c = "-"

\* A signed integer text: an explicit sign followed by digits.
is_signed_int(bs) == Len(bs) >= 2 /\ is_sign(bs[1]) /\ all_digits(Tail(bs))

parse_signed(bs) ==
  IF bs[1] = "-" THEN -parse_unsigned(Tail(bs)) ELSE parse_unsigned(Tail(bs))

\* An exponent text: digits with an optional sign.
is_exponent(bs) ==
  IF bs # <<>> /\ is_sign(bs[1]) THEN all_digits(Tail(bs)) ELSE all_digits(bs)

parse_exponent(bs) ==
  IF is_sign(bs[1]) THEN parse_signed(bs) ELSE parse_unsigned(bs)

index_of(bs, cs) ==
  LET S == {i \in 1..Len(bs) : bs[i] \in cs}
  IN  IF S = {} THEN 0 ELSE CHOOSE i \in S : \A j \in S : i <= j

digit_vals(bs) == [i \in 1..Len(bs) |-> DigitVal(bs[i])]

RECURSIVE strip_leading_zeros(_)
strip_leading_zeros(ds) ==
  IF ds # <<>> /\ Head(ds) = 0 THEN strip_leading_zeros(Tail(ds)) ELSE ds

RECURSIVE strip_trailing_zeros(_)
strip_trailing_zeros(ds) ==
  IF ds # <<>> /\ ds[Len(ds)] = 0
  THEN strip_trailing_zeros(SubSeq(ds, 1, Len(ds) - 1))
  ELSE ds

\* The text of a double: [sign] digits [. digits] [e [sign] digits].
double_parts(bs) ==
  LET signed == bs # <<>> /\ is_sign(bs[1])
      body == IF signed THEN Tail(bs) ELSE bs
      e == index_of(body, {"e", "E"})
      mant == IF e = 0 THEN body ELSE SubSeq(body, 1, e - 1)
      expo == IF e = 0 THEN <<>> ELSE SubSeq(body, e + 1, Len(body))
      dot == index_of(mant, {"."})
      int == IF dot = 0 THEN mant ELSE SubSeq(mant, 1, dot - 1)
      frac == IF dot = 0 THEN <<>> ELSE SubSeq(mant, dot + 1, Len(mant))
  IN  [neg |-> signed /\ bs[1] = "-", int |-> int, frac |-> frac,
       hasdot |-> dot # 0, hasexp |-> e # 0, expo |-> expo]

is_double(bs) ==
  LET p == double_parts(bs)
  IN  /\ all_digits(p.int)
      /\ (p.hasdot => all_digits(p.frac))
      /\ (p.hasexp => is_exponent(p.expo))

\* The value of a double text, in shortest decimal form.
parse_double(bs) ==
  LET p == double_parts(bs)
      all == digit_vals(p.int) \o digit_vals(p.frac)
      lead == strip_leading_zeros(all)
      lz == Len(all) - Len(lead)
      e == IF p.hasexp THEN parse_exponent(p.expo) ELSE 0
  IN  IF lead = <<>> THEN F64(FALSE, <<0>>, 0)
      ELSE F64(p.neg, strip_trailing_zeros(lead), Len(p.int) - 1 - lz + e)

RECURSIVE decode_at(_, _)
RECURSIVE decode_items(_, _, _)
RECURSIVE decode_pairs(_, _, _)
\* The composite of the item `r` and the items `rest` after it.
items_cons(r, rest) ==
  IF rest.kind # "Parsed" THEN rest
  ELSE [kind |-> "Parsed", items |-> <<r.frame>> \o rest.items, next |-> rest.next]

\* The first outcome that is not Parsed ends the composite with that outcome.
items_from(buf, n, r) ==
  IF r.kind # "Parsed" THEN r
  ELSE items_cons(r, decode_items(buf, r.next, n - 1))

\* `n` frames in order from `pos`.
decode_items(buf, pos, n) ==
  IF n = 0 THEN [kind |-> "Parsed", items |-> <<>>, next |-> pos]
  ELSE items_from(buf, n, decode_at(buf, pos))

\* The map of the pair (k, x) and the pairs `rest` after it; of two pairs
\* with the same key the later one is kept.
pairs_cons(k, x, rest) ==
  IF rest.kind # "Parsed" THEN rest
  ELSE [kind |-> "Parsed",
        map |-> [key \in DOMAIN rest.map \cup {k.frame.v} |->
                   IF key \in DOMAIN rest.map THEN rest.map[key] ELSE x.frame],
        next |-> rest.next]

pairs_value(buf, n, k, x) ==
  IF x.kind # "Parsed" THEN x
  ELSE pairs_cons(k, x, decode_pairs(buf, x.next, n - 1))

\* A key must decode as a SimpleString.
pairs_key(buf, n, k) ==
  IF k.kind # "Parsed" THEN k
  ELSE IF k.frame.t # "SimpleString" THEN Malformed
  ELSE pairs_value(buf, n, k, decode_at(buf, k.next))

\* `n` (key, value) pairs from `pos`.
decode_pairs(buf, pos, n) ==
  IF n = 0 THEN [kind |-> "Parsed", map |-> <<>>, next |-> pos]
  ELSE pairs_key(buf, n, decode_at(buf, pos))

\* A bulk string of declared length `len` whose payload starts at `start`.
decode_bulk(buf, start, len) ==
  IF Len(buf) < start + len + 1 THEN Incomplete
  ELSE IF <<buf[start + len], buf[start + len + 1]>> # CRLF THEN Malformed
  ELSE Parsed(BulkString(SubSeq(buf, start, start + len - 1)), start + len + 2)

array_of(r) == IF r.kind # "Parsed" THEN r ELSE Parsed(RespArray(r.items), r.next)

set_of(r) == IF r.kind # "Parsed" THEN r ELSE Parsed(RespSet(r.items), r.next)

map_of(r) == IF r.kind # "Parsed" THEN r ELSE Parsed(RespMap(r.map), r.next)

\* The frame whose tag is `tag`, whose first line is `line` and ends before
\* position `next`.
decode_line(buf, tag, line, next) ==
  CASE tag = "+" -> Parsed(SimpleString(line), next)
    [] tag = "-" -> Parsed(SimpleError(line), next)
    [] tag = ":" ->
         IF is_signed_int(line) THEN Parsed(Integer(parse_signed(line)), next)
         ELSE Malformed
    [] tag = "#" ->
         IF line = <<"t">> THEN Parsed(Boolean(TRUE), next)
         ELSE IF line = <<"f">> THEN Parsed(Boolean(FALSE), next)
         ELSE Malformed
    [] tag = "_" -> IF line = <<>> THEN Parsed(RespNull, next) ELSE Malformed
    [] tag = "," ->
         IF is_double(line) THEN Parsed(Double(parse_double(line)), next)
         ELSE Malformed
    [] tag = "$" ->
         IF line = <<"-", "1">> THEN Parsed(RespNullBulkString, next)
         ELSE IF all_digits(line) THEN decode_bulk(buf, next, parse_unsigned(line))
         ELSE Malformed
    [] tag = "*" ->
         IF line = <<"-", "1">> THEN Parsed(RespNullArray, next)
         ELSE IF ~all_digits(line) THEN Malformed
         ELSE array_of(decode_items(buf, next, parse_unsigned(line)))
    [] tag = "~" ->
         IF ~all_digits(line) THEN Malformed
         ELSE set_of(decode_items(buf, next, parse_unsigned(line)))
    [] tag = "%" ->
         IF ~all_digits(line) THEN Malformed
         ELSE map_of(decode_pairs(buf, next, parse_unsigned(line)))

\* The frame whose first line ends at the CRLF at `cr`; 0 is no CRLF.
decode_to(buf, pos, cr) ==
  IF cr = 0 THEN Incomplete
  ELSE decode_line(buf, buf[pos], SubSeq(buf, pos + 1, cr - 1), cr + 2)

\* One frame from position `pos` of the buffer.
decode_at(buf, pos) ==
  IF pos > Len(buf) THEN Incomplete
  ELSE IF buf[pos] \notin {"+", "-", ":", "$", "*", "_", "#", ",", "%", "~"} THEN Malformed
  ELSE decode_to(buf, pos, find_crlf(buf, pos + 1))

\* Parsed carries the number of bytes the frame takes.
decoded(r) ==
  IF r.kind = "Parsed" THEN [kind |-> "Parsed", frame |-> r.frame, n |-> r.next - 1]
  ELSE r

\* RespFrame::decode: the outcome for the frame at the front of the buffer.
RespFrame_decode(buf) == decoded(decode_at(buf, 1))

(***************************************************************************)
(* The backend store (src/backend/mod.rs).  A DashMap is a function from    *)
(* the keys it holds to their values; Option is None or Some(value).        *)
(***************************************************************************)
None == [some |-> FALSE]

Some(x) == [some |-> TRUE, val |-> x]

DashMap_new == <<>>

\* DashMap::insert: the entry of `k` is created or overwritten.
DashMap_insert(m, k, x) == [y \in DOMAIN m \cup {k} |-> IF y = k THEN x ELSE m[y]]

DashMap_get(m, k) == IF k \in DOMAIN m THEN Some(m[k]) ELSE None

\* Backend::get: self.map.get(key).map(|v| v.value().clone())
Backend_get(m, key) == DashMap_get(m, key)

\* Backend::set with the entry kept when the key is already present.
Backend_set_first_wins(m, key, value) ==
  [y \in DOMAIN m \cup {key} |-> IF y \in DOMAIN m THEN m[y] ELSE value]

\* Backend::set with the map replaced by the one entry.
Backend_set_only(m, key, value) == DashMap_insert(DashMap_new, key, value)

\* Backend::set: self.map.insert(key, value)
Backend_set(m, key, value) == DashMap_insert(m, key, value)

\* Backend::hget with the field ignored: some field of the key is returned.
Backend_hget_any_field(h, key, field) ==
  IF key \in DOMAIN h /\ DOMAIN h[key] # {}
  THEN Some(h[key][CHOOSE f \in DOMAIN h[key] : TRUE])
  ELSE None

\* Backend::hget: self.hmap.get(key).and_then(|v| v.get(field).map(..))
Backend_hget(h, key, field) ==
  LET v == DashMap_get(h, key)
  IN  IF v.some THEN DashMap_get(v.val, field) ELSE None

\* Backend::hset with a new inner map inserted on every call.
Backend_hset_fresh(h, key, field, value) ==
  DashMap_insert(h, key, DashMap_insert(DashMap_new, field, value))

\* Backend::hset: let hmap = self.hmap.entry(key).or_default();
\*                hmap.insert(field, value)
Backend_hset(h, key, field, value) ==
  LET inner == IF key \in DOMAIN h THEN h[key] ELSE DashMap_new
  IN  DashMap_insert(h, key, DashMap_insert(inner, field, value))

\* Backend::hgetall with an empty map for a key that is not present.
Backend_hgetall_or_default(h, key) ==
  Some(IF key \in DOMAIN h THEN h[key] ELSE DashMap_new)

\* Backend::hgetall: self.hmap.get(key).map(|v| v.clone())
Backend_hgetall(h, key) == DashMap_get(h, key)

(***************************************************************************)
(* Commands (src/cmd/mod.rs, src/cmd/map.rs).  A Result is Ok(value) or     *)
(* Err(error), the error one of the CommandError variants.                  *)
(***************************************************************************)
Ok(x) == [ok |-> TRUE, val |-> x]

Err(e) == [ok |-> FALSE, err |-> e]

RESP_OK == SimpleString(<<"O", "K">>)

Get(key) == [name |-> "Get", key |-> key]

Set(key, value) == [name |-> "Set", key |-> key, value |-> value]

HGet(key, field) == [name |-> "HGet", key |-> key, field |-> field]

HSet(key, field, value) == [name |-> "HSet", key |-> key, field |-> field, value |-> value]

HGetAll(key) == [name |-> "HGetAll", key |-> key]

\* validate_command with the check of the number of elements left out.
validate_command_any_len(value, names, n_args) ==
  IF \E i \in 1..Len(names) :
       \/ i > Len(value)
       \/ value[i].t # "BulkString"
       \/ to_ascii_lowercase(value[i].v) # names[i]
  THEN Err("InvalidCommand")
  ELSE Ok(<<>>)

\* validate_command: the array has names.len() + n_args elements and its
\* first names.len() elements are BulkStrings equal to the names when
\* lower-cased.
validate_command(value, names, n_args) ==
  IF Len(value) # n_args + Len(names) THEN Err("InvalidArguments")
  ELSE IF \E i \in 1..Len(names) :
            \/ value[i].t # "BulkString"
            \/ to_ascii_lowercase(value[i].v) # names[i]
       THEN Err("InvalidCommand")
       ELSE Ok(<<>>)

\* extract_args: value.0.into_iter().skip(start).collect()
extract_args(value, start) == SubSeq(value, start + 1, Len(value))

\* String::from_utf8(key.0)?
from_utf8(bs) == IF is_utf8(bs) THEN Ok(bs) ELSE Err("Utf8Error")

\* Get::try_from with the failure of String::from_utf8 reported as the
\* invalid key of the other arm.
Get_try_from_invalid_key(frame) ==
  LET checked == validate_command(frame, <<(<<"g", "e", "t">>)>>, 1)
      args == extract_args(frame, 1)
  IN  IF ~checked.ok THEN checked
      ELSE IF Len(args) >= 1 /\ args[1].t = "BulkString" /\ from_utf8(args[1].v).ok
           THEN Ok(Get(from_utf8(args[1].v).val))
           ELSE Err("InvalidArguments")

\* impl TryFrom<RespArray> for Get
Get_try_from(frame) ==
  LET checked == validate_command(frame, <<(<<"g", "e", "t">>)>>, 1)
      args == extract_args(frame, 1)
  IN  IF ~checked.ok THEN checked
      ELSE IF Len(args) >= 1 /\ args[1].t = "BulkString"
           THEN LET key == from_utf8(args[1].v)
                IN  IF key.ok THEN Ok(Get(key.val)) ELSE key
           ELSE Err("InvalidArguments")

\* impl TryFrom<RespArray> for Set
Set_try_from(value) ==
  LET checked == validate_command(value, <<(<<"s", "e", "t">>)>>, 2)
      args == extract_args(value, 1)
  IN  IF ~checked.ok THEN checked
      ELSE IF Len(args) >= 2 /\ args[1].t = "BulkString"
           THEN LET key == from_utf8(args[1].v)
                IN  IF key.ok THEN Ok(Set(key.val, args[2])) ELSE key
           ELSE Err("InvalidArguments")

\* src/cmd/mod.rs declares `mod hmap`, whose file is not among the sources;
\* the three hash commands are modelled from the command grammar: the name
\* token, then key and field as UTF-8 BulkStrings, then any value.
HGet_try_from(value) ==
  LET checked == validate_command(value, <<(<<"h", "g", "e", "t">>)>>, 2)
      args == extract_args(value, 1)
  IN  IF ~checked.ok THEN checked
      ELSE IF Len(args) >= 2 /\ args[1].t = "BulkString" /\ args[2].t = "BulkString"
           THEN LET key == from_utf8(args[1].v)
                    field == from_utf8(args[2].v)
                IN  IF ~key.ok THEN key
                    ELSE IF ~field.ok THEN field
                    ELSE Ok(HGet(key.val, field.val))
           ELSE Err("InvalidArguments")

HSet_try_from(value) ==
  LET checked == validate_command(value, <<(<<"h", "s", "e", "t">>)>>, 3)
      args == extract_args(value, 1)
  IN  IF ~checked.ok THEN checked
      ELSE IF Len(args) >= 3 /\ args[1].t = "BulkString" /\ args[2].t = "BulkString"
           THEN LET key == from_utf8(args[1].v)
                    field == from_utf8(args[2].v)
                IN  IF ~key.ok THEN key
                    ELSE IF ~field.ok THEN field
                    ELSE Ok(HSet(key.val, field.val, args[3]))
           ELSE Err("InvalidArguments")

HGetAll_try_from(value) ==
  LET checked == validate_command(value, <<(<<"h", "g", "e", "t", "a", "l", "l">>)>>, 1)
      args == extract_args(value, 1)
  IN  IF ~checked.ok THEN checked
      ELSE IF Len(args) >= 1 /\ args[1].t = "BulkString"
           THEN LET key == from_utf8(args[1].v)
                IN  IF key.ok THEN Ok(HGetAll(key.val)) ELSE key
           ELSE Err("InvalidArguments")

\* impl TryFrom<RespArray> for Command: the first element selects the
\* command by an exact match of its bytes.
Command_try_from(frame) ==
  IF Len(frame) >= 1 /\ frame[1].t = "BulkString"
  THEN LET cmd == frame[1].v
       IN  CASE cmd = <<"g", "e", "t">> -> Get_try_from(frame)
             [] cmd = <<"s", "e", "t">> -> Set_try_from(frame)
             [] cmd = <<"h", "g", "e", "t">> -> HGet_try_from(frame)
             [] cmd = <<"h", "s", "e", "t">> -> HSet_try_from(frame)
             [] cmd = <<"h", "g", "e", "t", "a", "l", "l">> -> HGetAll_try_from(frame)
             [] OTHER -> Err("InvalidCommand")
  ELSE Err("InvalidCommand")

\* Command::try_from(frame) for a RespFrame, as request_handler calls it: the
\* conversion is not among the sources; a frame that is not an Array is no
\* command.
Command_try_from_frame(frame) ==
  IF frame.t = "Array" THEN Command_try_from(frame.v) ELSE Err("InvalidCommand")

\* The store as the commands see it: the two maps of BackendInner.
Store(m, h) == [map |-> m, hmap |-> h]

Done(backend, frame) == [backend |-> backend, frame |-> frame]

\* impl CommandExecutor for Get
Get_execute(self, backend) ==
  LET found == Backend_get(backend.map, self.key)
  IN  Done(backend, IF found.some THEN found.val ELSE RespNull)

\* Set::execute with the call of backend.set left out.
Set_execute_no_store(self, backend) == Done(backend, RESP_OK)

\* impl CommandExecutor for Set
Set_execute(self, backend) ==
  Done(Store(Backend_set(backend.map, self.key, self.value), backend.hmap), RESP_OK)

\* The executors of the hash commands (src/cmd/hmap.rs, not among the
\* sources), from the dispatcher contract.
HGet_execute(self, backend) ==
  LET found == Backend_hget(backend.hmap, self.key, self.field)
  IN  Done(backend, IF found.some THEN found.val ELSE RespNull)

HSet_execute(self, backend) ==
  Done(Store(backend.map, Backend_hset(backend.hmap, self.key, self.field, self.value)),
       RESP_OK)

HGetAll_execute(self, backend) ==
  LET found == Backend_hgetall(backend.hmap, self.key)
  IN  Done(backend, IF found.some THEN RespMap(found.val) ELSE RespNull)

\* enum_dispatch(CommandExecutor) for Command.
Command_execute(cmd, backend) ==
  CASE cmd.name = "Get" -> Get_execute(cmd, backend)
    [] cmd.name = "Set" -> Set_execute(cmd, backend)
    [] cmd.name = "HGet" -> HGet_execute(cmd, backend)
    [] cmd.name = "HSet" -> HSet_execute(cmd, backend)
    [] cmd.name = "HGetAll" -> HGetAll_execute(cmd, backend)

\* request_handler: Command::try_from(frame)?, then cmd.execute(&backend).
request_handler(frame, backend) ==
  LET cmd == Command_try_from_frame(frame)
  IN  IF cmd.ok THEN Ok(Command_execute(cmd.val, backend)) ELSE cmd

(***************************************************************************)
(* State                                                                   *)
(***************************************************************************)
VARIABLES
  map,        \* BackendInner.map: key -> RespFrame
  hmap,       \* BackendInner.hmap: key -> field -> RespFrame
  lastSet,    \* history: key -> the value of the last Set executed on it
  overwrote,  \* history: the last request was a Set that replaced another value
  lastHSet,   \* history: <<key, field>> -> the value of the last HSet on it
  req,        \* the frame last given to request_handler
  ret,        \* what request_handler returned for it
  wire,       \* per connection: bytes the client sent, not yet read
  pend,       \* per connection: the rest of a request the client sent part of
  eof,        \* per connection: the client has disconnected
  rbuf,       \* per connection: the read buffer of Framed
  pc,         \* per connection: where stream_handler is
  frame,      \* per connection: the frame framed.next() returned
  resp,       \* per connection: the response request_handler returned
  out,        \* per connection: the encoded responses sent, in order
  reqLog,     \* history, per connection: the frames framed.next() returned
  resLog,     \* history, per connection: each request handled, with its response
  closedBy,   \* history, per connection: why stream_handler returned
  nsent,      \* the number of requests the clients have sent
  cv,         \* codec: the value under test
  cbuf,       \* codec: the buffer
  cres,       \* codec: the outcome of the last decode
  cpc,        \* codec: the step reached
  shard,      \* DashMap: the shard each key and each field hashes to
  rw,         \* DashMap: per shard lock, the tasks holding it for write and for read
  tpc,        \* per task: the step of the Backend call it is in
  top,        \* per task: the Backend call it makes, or made last
  tret,       \* per task: what its last call returned
  tsnap,      \* per task: the entries DashMap::clone has copied so far
  tidx,       \* per task: the shard DashMap::clone copies next
  seen,       \* history, per task: what hgetall would have returned at each moment of the call
  started,    \* history: the calls made so far
  nops        \* the number of calls made so far

storeVars == <<map, hmap, lastSet, lastHSet>>

reqVars == <<req, ret, overwrote>>

connVars == <<wire, pend, eof, rbuf, pc, frame, resp, out, reqLog, resLog, closedBy, nsent>>

codecVars == <<cv, cbuf, cres, cpc>>

taskVars == <<shard, rw, tpc, top, tret, tsnap, tidx, seen, started, nops>>

vars == <<storeVars, reqVars, connVars, codecVars, taskVars>>

(***************************************************************************)
(* The inputs: keys, fields, values and request frames                     *)
(***************************************************************************)
Keys == {<<"k">>, <<"j">>}

Fields == {<<"f">>, <<"g">>}

Values == {BulkString(<<"x">>), RespNull, RespArray(<<Integer(-7), Boolean(TRUE)>>)}

HValues == {BulkString(<<"x">>), RespArray(<<Integer(-7), Boolean(TRUE)>>)}

Request(words) == RespArray(words)

Word(bs) == BulkString(bs)

GetRequests == {Request(<<Word(<<"g", "e", "t">>), Word(k)>>) : k \in Keys}

\* Every value is set under the key k; the key j is the other key, and gets
\* one value.
SetRequests ==
  {Request(<<Word(<<"s", "e", "t">>), Word(<<"k">>), x>>) : x \in Values}
    \cup {Request(<<Word(<<"s", "e", "t">>), Word(<<"j">>), BulkString(<<"x">>)>>)}

HGetRequests ==
  {Request(<<Word(<<"h", "g", "e", "t">>), Word(k), Word(f)>>) : k \in Keys, f \in Fields}

HSetRequests ==
  {Request(<<Word(<<"h", "s", "e", "t">>), Word(<<"k">>), Word(f), x>>) :
     f \in Fields, x \in HValues}
    \cup {Request(<<Word(<<"h", "s", "e", "t">>), Word(<<"j">>), Word(<<"f">>), x>>) :
            x \in {BulkString(<<"x">>), RespNull}}

HGetAllRequests ==
  {Request(<<Word(<<"h", "g", "e", "t", "a", "l", "l">>), Word(k)>>) : k \in Keys}

\* Requests in another letter case, with the wrong number of elements, with
\* an unknown name, with a first element or a key that is no BulkString,
\* with a key that is not UTF-8, and frames that are no Array.
OtherRequests ==
  { Request(<<Word(<<"G", "E", "T">>), Word(<<"k">>)>>),
    Request(<<Word(<<"S", "e", "t">>), Word(<<"k">>), BulkString(<<"x">>)>>),
    Request(<<Word(<<"g", "e", "t">>)>>),
    Request(<<Word(<<"s", "e", "t">>), Word(<<"k">>)>>),
    Request(<<Word(<<"h", "s", "e", "t">>), Word(<<"k">>), Word(<<"f">>)>>),
    Request(<<Word(<<"h", "g", "e", "t">>), Word(<<"k">>)>>),
    Request(<<Word(<<"h", "g", "e", "t", "a", "l", "l">>)>>),
    Request(<<Word(<<"g", "e", "t">>), Word(<<"k">>), Word(<<"j">>)>>),
    Request(<<Word(<<"d", "e", "l">>), Word(<<"k">>)>>),
    Request(<<Integer(1), Word(<<"k">>)>>),
    Request(<<>>),
    Request(<<Word(<<"g", "e", "t">>), Integer(1)>>),
    Request(<<Word(<<"g", "e", "t">>), Word(<<"xFF">>)>>),
    Request(<<Word(<<"g", "e", "t">>), SimpleString(<<"k">>)>>),
    Request(<<Word(<<"s", "e", "t">>), Integer(1), BulkString(<<"x">>)>>),
    Request(<<Word(<<"s", "e", "t">>), Word(<<"k", "xFF">>), RespNull>>),
    Request(<<Word(<<"h", "g", "e", "t">>), Word(<<"k">>), Word(<<"xFF">>)>>),
    SimpleString(<<"P", "I", "N", "G">>),
    RespNull }

Requests ==
  GetRequests \cup SetRequests \cup HGetRequests \cup HSetRequests
    \cup HGetAllRequests \cup OtherRequests

(***************************************************************************)
(* The histories kept beside the store                                     *)
(***************************************************************************)
\* What the command `cmd`, once executed, adds to the histories.
LastSetAfter(cmd) ==
  IF cmd.name = "Set" THEN [lastSet EXCEPT ![cmd.key] = Some(cmd.value)] ELSE lastSet

Overwrites(cmd) ==
  cmd.name = "Set" /\ lastSet[cmd.key].some /\ lastSet[cmd.key].val # cmd.value

LastHSetAfter(cmd) ==
  IF cmd.name = "HSet" THEN [lastHSet EXCEPT ![<<cmd.key, cmd.field>>] = Some(cmd.value)]
  ELSE lastHSet

\* The fields an HSet has written under `k`.
HSetFields(k) == {f \in Fields : lastHSet[<<k, f>>].some}

StoreInit ==
  /\ map = DashMap_new
  /\ hmap = DashMap_new
  /\ lastSet = [k \in Keys |-> None]
  /\ lastHSet = [kf \in Keys \X Fields |-> None]

ReqInit == req = RespNull /\ ret = Err("none") /\ overwrote = FALSE

Conns == {"c1", "c2"}

ConnInit ==
  /\ wire = [c \in Conns |-> <<>>]
  /\ pend = [c \in Conns |-> <<>>]
  /\ eof = [c \in Conns |-> FALSE]
  /\ rbuf = [c \in Conns |-> <<>>]
  /\ pc = [c \in Conns |-> "next"]
  /\ frame = [c \in Conns |-> RespNull]
  /\ resp = [c \in Conns |-> RespNull]
  /\ out = [c \in Conns |-> <<>>]
  /\ reqLog = [c \in Conns |-> <<>>]
  /\ resLog = [c \in Conns |-> <<>>]
  /\ closedBy = [c \in Conns |-> "open"]
  /\ nsent = 0

CodecInit == cv = RespNull /\ cbuf = <<>> /\ cres = Incomplete /\ cpc = "idle"

\* The tasks that call the Backend at the same time: the stream_handler
\* tasks of the connections, on the threads of the runtime.
Tasks == {"t1", "t2"}

\* The number of shards of a DashMap.
NShards == 2

Shards == 1..NShards

\* The shard locks: of the scalar map, of the hash map.
Locks == {"map", "hmap"} \X Shards

\* The ways the keys and the fields hash to shards: two keys, and two
\* fields, in the same shard or in different ones.
ShardLayouts ==
  {h \in [Keys \cup Fields -> Shards] : h[<<"k">>] = 1 /\ h[<<"f">>] = 1}

NoCall == [name |-> "None"]

TaskInit ==
  /\ shard = [s \in Keys \cup Fields |-> 1]
  /\ rw = [l \in Locks |-> [w |-> {}, r |-> {}]]
  /\ tpc = [t \in Tasks |-> "idle"]
  /\ top = [t \in Tasks |-> NoCall]
  /\ tret = [t \in Tasks |-> None]
  /\ tsnap = [t \in Tasks |-> DashMap_new]
  /\ tidx = [t \in Tasks |-> 1]
  /\ seen = [t \in Tasks |-> {}]
  /\ started = {}
  /\ nops = 0

(***************************************************************************)
(* The connections (src/network.rs, src/main.rs): one stream_handler per    *)
(* client, all on the same Backend.                                         *)
(***************************************************************************)
\* The number of requests the clients send in all.
MaxReqs == 2

\* The number of bytes of a request a client sends first when it sends the
\* request in two parts.
Cut == 9

\* What the clients send: requests as the encoder writes them, and bytes
\* that are no frame.
WireRequests ==
  { RespFrame_encode(Request(<<Word(<<"s", "e", "t">>), Word(<<"k">>), BulkString(<<"x">>)>>)),
    RespFrame_encode(Request(<<Word(<<"g", "e", "t">>), Word(<<"k">>)>>)),
    RespFrame_encode(Request(<<Word(<<"G", "E", "T">>), Word(<<"k">>)>>)),
    RespFrame_encode(Request(<<Word(<<"h", "s", "e", "t">>), Word(<<"k">>), Word(<<"f">>),
                               Integer(-7)>>)),
    RespFrame_encode(Request(<<Word(<<"h", "g", "e", "t", "a", "l", "l">>), Word(<<"k">>)>>)),
    RespFrame_encode(Request(<<Word(<<"g", "e", "t">>)>>)),
    <<"?", "\r", "\n">> }

\* The match with the whole buffer taken for the frame parsed.
decode_result_clear(src, r) ==
  CASE r.kind = "Parsed" -> [kind |-> "Some", frame |-> r.frame, src |-> <<>>]
    [] r.kind = "Incomplete" -> [kind |-> "None", src |-> src]
    [] OTHER -> [kind |-> "Err", src |-> src]

\* The match with NotComplete answered like every other error: Err.
decode_result_no_retry(src, r) ==
  IF r.kind = "Parsed"
  THEN [kind |-> "Some", frame |-> r.frame, src |-> SubSeq(src, r.n + 1, Len(src))]
  ELSE [kind |-> "Err", src |-> src]

\* match RespFrame::decode(src): Ok(Some(frame)) with the buffer advanced
\* past the frame, Ok(None) for NotComplete, Err for every other error.
decode_result(src, r) ==
  CASE r.kind = "Parsed" ->
         [kind |-> "Some", frame |-> r.frame, src |-> SubSeq(src, r.n + 1, Len(src))]
    [] r.kind = "Incomplete" -> [kind |-> "None", src |-> src]
    [] OTHER -> [kind |-> "Err", src |-> src]

\* The decoder with every error answered like NotComplete: Ok(None).
RespFrameCodec_decode_retry(src) ==
  [decode_result(src, RespFrame_decode(src)) EXCEPT !.kind = IF @ = "Err" THEN "None" ELSE @]

\* impl Decoder for RespFrameCodec
RespFrameCodec_decode(src) == decode_result(src, RespFrame_decode(src))

\* impl Encoder<RespFrame> for RespFrameCodec: dst.extend_from_slice(&encoded)
RespFrameCodec_encode(item, dst) == dst \o RespFrame_encode(item)

\* A client sends a whole request.
ClientSend(c, r) ==
  /\ ~eof[c] /\ pend[c] = <<>> /\ nsent < MaxReqs
  /\ wire' = [wire EXCEPT ![c] = @ \o r]
  /\ nsent' = nsent + 1
  /\ UNCHANGED <<pend, eof, rbuf, pc, frame, resp, out, reqLog, resLog, closedBy>>
  /\ UNCHANGED <<storeVars, reqVars, codecVars, taskVars>>

\* A client sends the first Cut bytes of a request.
ClientSendPart(c, r) ==
  /\ ~eof[c] /\ pend[c] = <<>> /\ nsent < MaxReqs
  /\ Len(r) > Cut
  /\ wire' = [wire EXCEPT ![c] = @ \o SubSeq(r, 1, Cut)]
  /\ pend' = [pend EXCEPT ![c] = SubSeq(r, Cut + 1, Len(r))]
  /\ nsent' = nsent + 1
  /\ UNCHANGED <<eof, rbuf, pc, frame, resp, out, reqLog, resLog, closedBy>>
  /\ UNCHANGED <<storeVars, reqVars, codecVars, taskVars>>

\* A client sends the rest of the request it sent part of.
ClientSendRest(c) ==
  /\ ~eof[c] /\ pend[c] # <<>>
  /\ wire' = [wire EXCEPT ![c] = @ \o pend[c]]
  /\ pend' = [pend EXCEPT ![c] = <<>>]
  /\ UNCHANGED <<eof, rbuf, pc, frame, resp, out, reqLog, resLog, closedBy, nsent>>
  /\ UNCHANGED <<storeVars, reqVars, codecVars, taskVars>>

\* A client disconnects.
ClientClose(c) ==
  /\ ~eof[c]
  /\ eof' = [eof EXCEPT ![c] = TRUE]
  /\ pend' = [pend EXCEPT ![c] = <<>>]
  /\ UNCHANGED <<wire, rbuf, pc, frame, resp, out, reqLog, resLog, closedBy, nsent>>
  /\ UNCHANGED <<storeVars, reqVars, codecVars, taskVars>>

\* framed.next() finds no whole frame in its buffer and reads the bytes
\* that have arrived.
FramedRead(c) ==
  /\ pc[c] = "next"
  /\ RespFrameCodec_decode(rbuf[c]).kind = "None"
  /\ wire[c] # <<>>
  /\ rbuf' = [rbuf EXCEPT ![c] = @ \o wire[c]]
  /\ wire' = [wire EXCEPT ![c] = <<>>]
  /\ UNCHANGED <<pend, eof, pc, frame, resp, out, reqLog, resLog, closedBy, nsent>>
  /\ UNCHANGED <<storeVars, reqVars, codecVars, taskVars>>

\* framed.next() returns Some(Ok(frame)).
FramedFrame(c) ==
  /\ pc[c] = "next"
  /\ LET d == RespFrameCodec_decode(rbuf[c])
     IN  /\ d.kind = "Some"
         /\ rbuf' = [rbuf EXCEPT ![c] = d.src]
         /\ frame' = [frame EXCEPT ![c] = d.frame]
         /\ reqLog' = [reqLog EXCEPT ![c] = Append(@, d.frame)]
  /\ pc' = [pc EXCEPT ![c] = "handle"]
  /\ UNCHANGED <<wire, pend, eof, resp, out, resLog, closedBy, nsent>>
  /\ UNCHANGED <<storeVars, reqVars, codecVars, taskVars>>

\* framed.next() returns Some(Err(e)): stream_handler returns Err(e).
FramedErr(c) ==
  /\ pc[c] = "next"
  /\ RespFrameCodec_decode(rbuf[c]).kind = "Err"
  /\ pc' = [pc EXCEPT ![c] = "closed"]
  /\ closedBy' = [closedBy EXCEPT ![c] = "decode"]
  /\ UNCHANGED <<wire, pend, eof, rbuf, frame, resp, out, reqLog, resLog, nsent>>
  /\ UNCHANGED <<storeVars, reqVars, codecVars, taskVars>>

\* The client has disconnected and every byte has been read: framed.next()
\* returns None when the buffer is empty, and an error when bytes of an
\* unfinished frame remain; stream_handler returns.
FramedEof(c) ==
  /\ pc[c] = "next"
  /\ RespFrameCodec_decode(rbuf[c]).kind = "None"
  /\ wire[c] = <<>> /\ eof[c]
  /\ pc' = [pc EXCEPT ![c] = "closed"]
  /\ closedBy' = [closedBy EXCEPT ![c] = IF rbuf[c] = <<>> THEN "eof" ELSE "eof_partial"]
  /\ UNCHANGED <<wire, pend, eof, rbuf, frame, resp, out, reqLog, resLog, nsent>>
  /\ UNCHANGED <<storeVars, reqVars, codecVars, taskVars>>

\* framed.send left out: the response is dropped and the loop goes on.
Send_skip(c) ==
  /\ pc[c] = "send"
  /\ pc' = [pc EXCEPT ![c] = "next"]
  /\ UNCHANGED <<wire, pend, eof, rbuf, frame, resp, out, reqLog, resLog, closedBy, nsent>>
  /\ UNCHANGED <<storeVars, reqVars, codecVars, taskVars>>

\* The `?` of request_handler(request).await? left out: a rejected request is
\* dropped and the loop goes on.
Handle_continue(c) ==
  /\ pc[c] = "handle"
  /\ LET cmd == Command_try_from_frame(frame[c])
         r == request_handler(frame[c], Store(map, hmap))
     IN  IF r.ok
         THEN /\ map' = r.val.backend.map
              /\ hmap' = r.val.backend.hmap
              /\ lastSet' = LastSetAfter(cmd.val)
              /\ lastHSet' = LastHSetAfter(cmd.val)
              /\ resp' = [resp EXCEPT ![c] = r.val.frame]
              /\ resLog' = [resLog EXCEPT ![c] =
                              Append(@, [request |-> frame[c], response |-> r.val.frame])]
              /\ pc' = [pc EXCEPT ![c] = "send"]
              /\ UNCHANGED closedBy
         ELSE /\ pc' = [pc EXCEPT ![c] = "next"]
              /\ UNCHANGED <<storeVars, resp, resLog, closedBy>>
  /\ UNCHANGED <<wire, pend, eof, rbuf, frame, out, reqLog, nsent>>
  /\ UNCHANGED <<reqVars, codecVars, taskVars>>

\* request_handler run on a store of the connection's own, a copy of the
\* shared one: the command is answered and the shared store stays as it is.
Handle_own_store(c) ==
  /\ pc[c] = "handle"
  /\ LET cmd == Command_try_from_frame(frame[c])
         r == request_handler(frame[c], Store(map, hmap))
     IN  IF r.ok
         THEN /\ lastSet' = LastSetAfter(cmd.val)
              /\ lastHSet' = LastHSetAfter(cmd.val)
              /\ resp' = [resp EXCEPT ![c] = r.val.frame]
              /\ resLog' = [resLog EXCEPT ![c] =
                              Append(@, [request |-> frame[c], response |-> r.val.frame])]
              /\ pc' = [pc EXCEPT ![c] = "send"]
              /\ UNCHANGED <<map, hmap, closedBy>>
         ELSE /\ pc' = [pc EXCEPT ![c] = "closed"]
              /\ closedBy' = [closedBy EXCEPT ![c] = "command"]
              /\ UNCHANGED <<storeVars, resp, resLog>>
  /\ UNCHANGED <<wire, pend, eof, rbuf, frame, out, reqLog, nsent>>
  /\ UNCHANGED <<reqVars, codecVars, taskVars>>

\* let response = request_handler(request).await?
Handle(c) ==
  /\ pc[c] = "handle"
  /\ LET cmd == Command_try_from_frame(frame[c])
         r == request_handler(frame[c], Store(map, hmap))
     IN  IF r.ok
         THEN /\ map' = r.val.backend.map
              /\ hmap' = r.val.backend.hmap
              /\ lastSet' = LastSetAfter(cmd.val)
              /\ lastHSet' = LastHSetAfter(cmd.val)
              /\ resp' = [resp EXCEPT ![c] = r.val.frame]
              /\ resLog' = [resLog EXCEPT ![c] =
                              Append(@, [request |-> frame[c], response |-> r.val.frame])]
              /\ pc' = [pc EXCEPT ![c] = "send"]
              /\ UNCHANGED closedBy
         ELSE /\ pc' = [pc EXCEPT ![c] = "closed"]
              /\ closedBy' = [closedBy EXCEPT ![c] = "command"]
              /\ UNCHANGED <<storeVars, resp, resLog>>
  /\ UNCHANGED <<wire, pend, eof, rbuf, frame, out, reqLog, nsent>>
  /\ UNCHANGED <<reqVars, codecVars, taskVars>>

\* framed.send(response.frame).await succeeds; the loop goes on.
Send(c) ==
  /\ pc[c] = "send"
  /\ out' = [out EXCEPT ![c] = Append(@, RespFrameCodec_encode(resp[c], <<>>))]
  /\ pc' = [pc EXCEPT ![c] = "next"]
  /\ UNCHANGED <<wire, pend, eof, rbuf, frame, resp, reqLog, resLog, closedBy, nsent>>
  /\ UNCHANGED <<storeVars, reqVars, codecVars, taskVars>>

\* The failed send with the command's write taken back: the entry of a Set
\* is removed from the scalar map again.
SendFail_undo(c) ==
  /\ pc[c] = "send"
  /\ eof[c]
  /\ pc' = [pc EXCEPT ![c] = "closed"]
  /\ closedBy' = [closedBy EXCEPT ![c] = "send"]
  /\ LET cmd == Command_try_from_frame(frame[c]).val
     IN  map' = IF cmd.name = "Set"
                THEN [k \in DOMAIN map \ {cmd.key} |-> map[k]]
                ELSE map
  /\ UNCHANGED <<hmap, lastSet, lastHSet>>
  /\ UNCHANGED <<wire, pend, eof, rbuf, frame, resp, out, reqLog, resLog, nsent>>
  /\ UNCHANGED <<reqVars, codecVars, taskVars>>

\* framed.send(response.frame).await? fails, the client having
\* disconnected: stream_handler returns the error.
SendFail(c) ==
  /\ pc[c] = "send"
  /\ eof[c]
  /\ pc' = [pc EXCEPT ![c] = "closed"]
  /\ closedBy' = [closedBy EXCEPT ![c] = "send"]
  /\ UNCHANGED <<wire, pend, eof, rbuf, frame, resp, out, reqLog, resLog, nsent>>
  /\ UNCHANGED <<storeVars, reqVars, codecVars, taskVars>>

Init == StoreInit /\ ReqInit /\ ConnInit /\ CodecInit /\ TaskInit

Next ==
  \E c \in Conns :
    \/ \E r \in WireRequests : ClientSend(c, r)
    \/ \E r \in WireRequests : ClientSendPart(c, r)
    \/ ClientSendRest(c)
    \/ ClientClose(c)
    \/ FramedRead(c)
    \/ FramedFrame(c)
    \/ FramedErr(c)
    \/ FramedEof(c)
    \/ Handle(c)
    \/ Send(c)
    \/ SendFail(c)

Spec == Init /\ [][Next]_vars

(***************************************************************************)
(* Requests handled one after another: request_handler applied to a frame   *)
(* and the store, as one connection's handler does for each frame.          *)
(***************************************************************************)
\* request_handler(request): the store is changed by the command executed,
\* and by nothing when the frame is rejected.
HandleRequest(f) ==
  LET cmd == Command_try_from_frame(f)
      r == request_handler(f, Store(map, hmap))
  IN  /\ req' = f
      /\ IF r.ok
         THEN /\ ret' = Ok(r.val.frame)
              /\ map' = r.val.backend.map
              /\ hmap' = r.val.backend.hmap
              /\ lastSet' = LastSetAfter(cmd.val)
              /\ overwrote' = Overwrites(cmd.val)
              /\ lastHSet' = LastHSetAfter(cmd.val)
         ELSE /\ ret' = r
              /\ overwrote' = FALSE
              /\ UNCHANGED storeVars
      /\ UNCHANGED <<connVars, codecVars, taskVars>>

RequestInit == StoreInit /\ ReqInit /\ ConnInit /\ CodecInit /\ TaskInit /\ TaskInit

RequestNext == \E f \in Requests : HandleRequest(f)

SpecRequest == RequestInit /\ [][RequestNext]_vars

\* The command the last request was parsed to, when it was accepted.
ReqCmd == Command_try_from_frame(req)

ReqIs(name) == ReqCmd.ok /\ ReqCmd.val.name = name

ReqKey == ReqCmd.val.key

ReqField == ReqCmd.val.field

\* What a Get, HGet or HGetAll dispatched in the current state returns.
GetNow(k) == Get_execute(Get(k), Store(map, hmap)).frame

HGetNow(k, f) == HGet_execute(HGet(k, f), Store(map, hmap)).frame

HGetAllNow(k) == HGetAll_execute(HGetAll(k), Store(map, hmap)).frame

\* C1: scalar read-your-write.  Once Set{k,x} has been dispatched and no
\* later Set on k, a Get{k} returns exactly x, whatever variant x is: the
\* Get just dispatched returned it, and a Get dispatched now would.
C1_ScalarReadYourWrite ==
  /\ \A k \in Keys : lastSet[k].some => GetNow(k) = lastSet[k].val
  /\ (ReqIs("Get") /\ lastSet[ReqKey].some) => ret = Ok(lastSet[ReqKey].val)

\* A Get has returned an Array that a Set stored.
C1_Witness ==
  /\ ReqIs("Get")
  /\ lastSet[ReqKey].some
  /\ lastSet[ReqKey].val.t = "Array"
  /\ ret = Ok(lastSet[ReqKey].val)

\* C2: hash read-your-write.  Once hset(k,f,x) has run and no later hset on
\* (k,f), hget(k,f) returns x and hgetall(k) returns a mapping that holds
\* the entry f -> x; the HGet and HGetAll commands answer accordingly.
C2_HashReadYourWrite ==
  /\ \A k \in Keys, f \in Fields :
       lastHSet[<<k, f>>].some =>
         /\ Backend_hget(hmap, k, f) = lastHSet[<<k, f>>]
         /\ Backend_hgetall(hmap, k).some
         /\ f \in DOMAIN Backend_hgetall(hmap, k).val
         /\ Backend_hgetall(hmap, k).val[f] = lastHSet[<<k, f>>].val
  /\ (ReqIs("HGet") /\ lastHSet[<<ReqKey, ReqField>>].some) =>
       ret = Ok(lastHSet[<<ReqKey, ReqField>>].val)
  /\ ReqIs("HGetAll") =>
       \A f \in HSetFields(ReqKey) :
         /\ ret.ok /\ ret.val.t = "Map"
         /\ f \in DOMAIN ret.val.v
         /\ ret.val.v[f] = lastHSet[<<ReqKey, f>>].val

\* An HGet has returned the value an HSet wrote to its field, with another
\* field present under the same key.
C2_Witness ==
  /\ ReqIs("HGet")
  /\ HSetFields(ReqKey) = Fields
  /\ lastHSet[<<ReqKey, <<"f">>>>].val # lastHSet[<<ReqKey, <<"g">>>>].val
  /\ ret = Ok(lastHSet[<<ReqKey, ReqField>>].val)
  /\ Backend_hgetall(hmap, ReqKey).val[ReqField] = ret.val

\* C3: absence is Null, never an error.  A Get on a key never Set, an HGet
\* on a key never HSet or on a field never HSet under an existing key, and
\* an HGetAll on a key never HSet all succeed and return Null; the store
\* reports the key or field as absent, and not as an empty mapping.
C3_AbsenceIsNull ==
  /\ ReqCmd.ok => ret.ok
  /\ (ReqIs("Get") /\ ~lastSet[ReqKey].some) => ret = Ok(RespNull)
  /\ (ReqIs("HGet") /\ ~lastHSet[<<ReqKey, ReqField>>].some) => ret = Ok(RespNull)
  /\ (ReqIs("HGetAll") /\ HSetFields(ReqKey) = {}) => ret = Ok(RespNull)
  /\ \A k \in Keys :
       /\ ~lastSet[k].some => (Backend_get(map, k) = None /\ GetNow(k) = RespNull)
       /\ HSetFields(k) = {} => (Backend_hgetall(hmap, k) = None /\ HGetAllNow(k) = RespNull)
       /\ \A f \in Fields :
            ~lastHSet[<<k, f>>].some =>
              (Backend_hget(hmap, k, f) = None /\ HGetNow(k, f) = RespNull)

\* An HGet has returned Null for a field never written under a key that
\* has another field, while a key of the scalar namespace is set.
C3_Witness ==
  /\ ReqIs("HGet")
  /\ HSetFields(ReqKey) # {}
  /\ ~lastHSet[<<ReqKey, ReqField>>].some
  /\ \E k \in Keys : lastSet[k].some
  /\ ret = Ok(RespNull)

\* C4: Set always succeeds and overwrites.  In every store state a Set
\* returns SimpleString "OK"; after it a Get on its key returns its value,
\* also when the key held another value before.
C4_SetOverwrites ==
  /\ \A f \in SetRequests :
       LET r == request_handler(f, Store(map, hmap))
       IN  r.ok /\ r.val.frame = SimpleString(<<"O", "K">>)
  /\ ReqIs("Set") =>
       /\ ret = Ok(SimpleString(<<"O", "K">>))
       /\ GetNow(ReqKey) = ReqCmd.val.value
       /\ Backend_get(map, ReqKey) = Some(ReqCmd.val.value)

\* A Set has replaced a different value and a Get now returns the new one.
C4_Witness ==
  /\ ReqIs("Set")
  /\ overwrote
  /\ ret = Ok(RESP_OK)
  /\ GetNow(ReqKey) = ReqCmd.val.value

\* C5: hash field independence.  After hset(k,f1,x) and hset(k,f2,y) with
\* f1 # f2 on a key unseen before, hget(k,f1) = x and hget(k,f2) = y, and
\* hgetall(k) holds exactly the two entries f1 -> x and f2 -> y.
C5_FieldIndependence ==
  /\ \A k \in Keys, f1 \in Fields, f2 \in Fields :
       (f1 # f2 /\ HSetFields(k) = {f1, f2}) =>
         /\ Backend_hget(hmap, k, f1) = lastHSet[<<k, f1>>]
         /\ Backend_hget(hmap, k, f2) = lastHSet[<<k, f2>>]
         /\ Backend_hgetall(hmap, k) =
              Some([f \in {f1, f2} |-> lastHSet[<<k, f>>].val])
  /\ (ReqIs("HGetAll") /\ Cardinality(HSetFields(ReqKey)) = 2) =>
       ret = Ok(RespMap([f \in HSetFields(ReqKey) |-> lastHSet[<<ReqKey, f>>].val]))

\* An HGetAll has returned the two entries of a key, of different values.
C5_Witness ==
  /\ ReqIs("HGetAll")
  /\ Cardinality(HSetFields(ReqKey)) = 2
  /\ ret.ok /\ ret.val.t = "Map"
  /\ DOMAIN ret.val.v = Fields
  /\ ret.val.v[<<"f">>] # ret.val.v[<<"g">>]

(***************************************************************************)
(* Claims about the connections (specification Spec)                       *)
(***************************************************************************)
\* What stream_handler holds of the connection c, and what it has sent.
HandlerState(c) ==
  <<rbuf[c], pc[c], frame[c], resp[c], out[c], reqLog[c], resLog[c], closedBy[c]>>

WellFormedRequest(f) ==
  /\ f.t = "Array"
  /\ \/ Get_try_from(f.v).ok
     \/ Set_try_from(f.v).ok
     \/ HGet_try_from(f.v).ok
     \/ HSet_try_from(f.v).ok
     \/ HGetAll_try_from(f.v).ok

\* C7: a well-formed request for a recognized command leaves the connection
\* open: no connection is closed for a command error on such a request.
C7_WellFormedStaysOpen ==
  \A c \in Conns : closedBy[c] = "command" => ~WellFormedRequest(frame[c])

\* C8: the step that rejects a request closes its connection, leaves the
\* store and what the connection has sent as they are, and changes nothing
\* of the other connection; a closed connection parses, executes and sends
\* nothing more.  No frame at all is sent for the rejected request.
C8_CommandErrorEndsLoop ==
  [][\A c \in Conns :
       /\ (pc[c] = "handle" /\ ~Command_try_from_frame(frame[c]).ok /\ pc'[c] # "handle")
            => /\ pc'[c] = "closed" /\ closedBy'[c] = "command"
               /\ map' = map /\ hmap' = hmap
               /\ out'[c] = out[c] /\ reqLog'[c] = reqLog[c] /\ resLog'[c] = resLog[c]
               /\ \A d \in Conns \ {c} : HandlerState(d)' = HandlerState(d)
       /\ pc[c] = "closed" => HandlerState(c)' = HandlerState(c)
    ]_vars

\* One connection closed for a rejected request with nothing sent on it,
\* the other one answered and waiting for its next request.
C8_Witness ==
  /\ closedBy["c1"] = "command"
  /\ Len(reqLog["c1"]) = 1
  /\ out["c1"] = <<>>
  /\ pc["c2"] = "next"
  /\ out["c2"] = <<RespFrame_encode(RESP_OK)>>

\* C9: while the decoder reports Malformed on the buffer of a connection,
\* the only step of its handler closes the connection for the decode error:
\* the buffer is not read further, no frame comes of it, the store is as it
\* was; the closed connection then does nothing more.
C9_MalformedIsFatal ==
  [][\A c \in Conns :
       /\ (pc[c] = "next" /\ RespFrame_decode(rbuf[c]).kind = "Malformed"
             /\ HandlerState(c)' # HandlerState(c))
            => /\ pc'[c] = "closed" /\ closedBy'[c] = "decode"
               /\ rbuf'[c] = rbuf[c] /\ reqLog'[c] = reqLog[c] /\ out'[c] = out[c]
               /\ map' = map /\ hmap' = hmap
       /\ closedBy[c] = "decode"
            => /\ HandlerState(c)' = HandlerState(c)
               /\ RespFrame_decode(rbuf[c]).kind = "Malformed"
    ]_vars

\* A connection closed for bytes that are no frame, after a request on it
\* was answered and changed the store.
C9_Witness ==
  /\ closedBy["c1"] = "decode"
  /\ Len(out["c1"]) = 1
  /\ map # DashMap_new
  /\ wire["c1"] = <<>>

\* Every key of the scalar map, every key of the hash map and every field
\* of each of its keys is still there after the step.
EntriesKept ==
  /\ DOMAIN map \subseteq DOMAIN map'
  /\ \A k \in DOMAIN hmap : k \in DOMAIN hmap' /\ DOMAIN hmap[k] \subseteq DOMAIN hmap'[k]

\* C22 as stated: no entry is ever removed, and a key whose Get gives a
\* value other than Null, or a field whose HGet does, never gives Null
\* after any later request.
C22_NeverNullAgain ==
  [][/\ EntriesKept
     /\ \A k \in Keys : GetNow(k) # RespNull => GetNow(k)' # RespNull
     /\ \A k \in Keys, f \in Fields : HGetNow(k, f) # RespNull => HGetNow(k, f)' # RespNull
    ]_vars

\* C22 amended: no entry is ever removed; a key whose Get gave a value other
\* than Null, or a field whose HGet did, gives Null after a later request
\* only when the entry is present and Null is the value stored in it.
C22_EntriesPersist ==
  [][/\ EntriesKept
     /\ \A k \in Keys :
          (GetNow(k) # RespNull /\ GetNow(k)' = RespNull) =>
            Backend_get(map', k) = Some(RespNull)
     /\ \A k \in Keys, f \in Fields :
          (HGetNow(k, f) # RespNull /\ HGetNow(k, f)' = RespNull) =>
            Backend_hget(hmap', k, f) = Some(RespNull)
    ]_vars

\* A Set has replaced the value of k by Null: the key is present, and a Get
\* gives Null; the other key and a hash field are present too.
C22_Witness ==
  /\ ReqIs("Set") /\ ReqCmd.val.value = RespNull
  /\ overwrote
  /\ Backend_get(map, ReqKey) = Some(RespNull)
  /\ GetNow(ReqKey) = RespNull
  /\ DOMAIN map = Keys
  /\ Backend_hget(hmap, <<"j">>, <<"f">>) = Some(RespNull)

\* The command of a request that request_handler accepted.
CommandOf(f) == Command_try_from_frame(f).val

\* C21: the handlers work on one store.  When a connection executes a Get
\* or an HGetAll and the response of a Set or HSet on the same key has
\* already been sent on another connection, the Get gives the value last
\* written to the key, and the HGetAll a Map holding the field with the
\* value last written to it.
C21_SharedStore ==
  [][\A c \in Conns :
       (pc[c] = "handle" /\ pc'[c] = "send") =>
         \A d \in Conns \ {c} : \A i \in 1..Len(out[d]) :
           LET cmd == CommandOf(frame[c])
               w == CommandOf(resLog[d][i].request)
           IN  /\ (w.name = "Set" /\ cmd.name = "Get" /\ cmd.key = w.key) =>
                    /\ lastSet[w.key].some
                    /\ resp'[c] = lastSet[w.key].val
               /\ (w.name = "HSet" /\ cmd.name = "HGetAll" /\ cmd.key = w.key) =>
                    /\ resp'[c].t = "Map"
                    /\ w.field \in DOMAIN resp'[c].v
                    /\ resp'[c].v[w.field] = lastHSet[<<w.key, w.field>>].val
    ]_vars

\* The response of a Set has been sent on c1, and c2 has then read its
\* value with a Get.
C21_Witness ==
  /\ Len(out["c1"]) = 1
  /\ CommandOf(resLog["c1"][1].request) = Set(<<"k">>, BulkString(<<"x">>))
  /\ pc["c2"] = "send"
  /\ reqLog["c1"] = <<resLog["c1"][1].request>>
  /\ CommandOf(frame["c2"]) = Get(<<"k">>)
  /\ resp["c2"] = BulkString(<<"x">>)

\* The requests executed so far, on all connections.
Executed == UNION {{<<c, i>> : i \in 1..Len(resLog[c])} : c \in Conns}

\* C23: while the decoder reports Incomplete on the buffer of a connection,
\* a step of its handler sends nothing, parses and executes nothing and
\* leaves the store alone: it appends the bytes that have arrived to the
\* buffer, the connection staying open, and decodes again; it ends only for
\* the client having disconnected with nothing more to read.  A request of which a part has not been sent yet is not
\* executed, and no request is executed more than once: the requests
\* executed are never more than the requests sent in full.
C23_IncompleteRetries ==
  /\ [](Cardinality(Executed) + Cardinality({c \in Conns : pend[c] # <<>>}) <= nsent)
  /\ [][\A c \in Conns :
          (pc[c] = "next" /\ RespFrame_decode(rbuf[c]).kind = "Incomplete"
             /\ HandlerState(c)' # HandlerState(c))
            => /\ out'[c] = out[c] /\ reqLog'[c] = reqLog[c] /\ resLog'[c] = resLog[c]
               /\ map' = map /\ hmap' = hmap
               /\ \/ /\ pc'[c] = "next" /\ closedBy'[c] = "open"
                     /\ wire[c] # <<>>
                     /\ rbuf'[c] = rbuf[c] \o wire[c]
                  \/ /\ eof[c] /\ wire[c] = <<>>
                     /\ pc'[c] = "closed" /\ closedBy'[c] \in {"eof", "eof_partial"}
                     /\ rbuf'[c] = rbuf[c]
       ]_vars

\* A connection has answered one request and holds the first part of the
\* next one in its buffer, the rest not sent yet: it is open and waits.
C23_Witness ==
  /\ pc["c1"] = "next" /\ closedBy["c1"] = "open"
  /\ Len(out["c1"]) = 1 /\ Len(resLog["c1"]) = 1
  /\ Len(rbuf["c1"]) = Cut /\ wire["c1"] = <<>> /\ pend["c1"] # <<>>
  /\ RespFrame_decode(rbuf["c1"]).kind = "Incomplete"

\* The write of the last command of the connection is in the store: the
\* key of a Set, or the field of an HSet, is present with the value last
\* written to it.
WriteInStore(c) ==
  LET w == CommandOf(frame[c])
  IN  /\ w.name = "Set" =>
           lastSet[w.key].some /\ Backend_get(map, w.key) = lastSet[w.key]
      /\ w.name = "HSet" =>
           /\ lastHSet[<<w.key, w.field>>].some
           /\ Backend_hget(hmap, w.key, w.field) = lastHSet[<<w.key, w.field>>]

\* C25: the step in which sending the response fails closes the connection
\* and leaves the store as it is; from then on the write of the command
\* stays in the store, and a Get or HGetAll executed on the other
\* connection gives the value last written to the key.
C25_TeardownKeepsWrite ==
  /\ [](\A c \in Conns : closedBy[c] = "send" => WriteInStore(c))
  /\ [][\A c \in Conns :
          /\ (pc[c] = "send" /\ pc'[c] = "closed") =>
               closedBy'[c] = "send" /\ map' = map /\ hmap' = hmap /\ out'[c] = out[c]
          /\ closedBy[c] = "send" =>
               \A d \in Conns \ {c} :
                 (pc[d] = "handle" /\ pc'[d] = "send") =>
                   LET w == CommandOf(frame[c])
                       cmd == CommandOf(frame[d])
                   IN  /\ (w.name = "Set" /\ cmd.name = "Get" /\ cmd.key = w.key) =>
                            resp'[d] = lastSet[w.key].val
                       /\ (w.name = "HSet" /\ cmd.name = "HGetAll" /\ cmd.key = w.key) =>
                            /\ resp'[d].t = "Map"
                            /\ w.field \in DOMAIN resp'[d].v
                            /\ resp'[d].v[w.field] = lastHSet[<<w.key, w.field>>].val
       ]_vars

\* The client of c1 disconnected before the response of its Set could be
\* sent; a Get on c2 has read the value.
C25_Witness ==
  /\ closedBy["c1"] = "send" /\ out["c1"] = <<>>
  /\ CommandOf(frame["c1"]) = Set(<<"k">>, BulkString(<<"x">>))
  /\ pc["c2"] = "send"
  /\ CommandOf(frame["c2"]) = Get(<<"k">>)
  /\ resp["c2"] = BulkString(<<"x">>)

(***************************************************************************)
(* The codec alone: a value is encoded into an empty buffer, and the buffer *)
(* is decoded (specification SpecCodec).                                   *)
(***************************************************************************)
\* The greatest number of items of an Array or a Set, and of entries of a
\* Map, among the values.
MaxItems == 2

\* The values with no value inside: every variant, texts without line
\* breaks, payloads with them, integers of each sign and of several digits,
\* doubles in fixed and in scientific notation.
CodecScalars ==
  { SimpleString(<<>>), SimpleString(<<"O", "K">>),
    SimpleError(<<"E", "R", "R", " ", "x">>),
    Integer(0), Integer(-7), Integer(1234567),
    BulkString(<<>>), BulkString(<<"a", "\r", "\n", "$", "1">>),
    RespNullBulkString, RespNull, RespNullArray,
    Boolean(TRUE), Boolean(FALSE),
    Double(F64(FALSE, <<0>>, 0)),
    Double(F64(FALSE, <<5>>, 0)),
    Double(F64(FALSE, <<1, 2, 3, 4, 5, 6>>, 2)),
    Double(F64(TRUE, <<1, 2, 3, 4, 5, 6>>, -8)),
    Double(F64(FALSE, <<1>>, 8)),
    Double(F64(FALSE, <<1, 2, 3, 4, 5, 6>>, 8)),
    Double(F64(TRUE, <<1, 2>>, -9)) }

\* The values put inside the Arrays, Sets and Maps.
CodecLeaves ==
  { SimpleString(<<"O", "K">>), Integer(-7), BulkString(<<"a", "\r", "\n">>), RespNull,
    Double(F64(FALSE, <<1, 2, 3, 4, 5, 6>>, 8)) }

CodecKeys == {<<"a">>, <<"b">>, <<"a", "b">>}

CodecSeqs == UNION {[1..n -> CodecLeaves] : n \in 0..MaxItems}

CodecMaps ==
  UNION {[K -> CodecLeaves] : K \in {K \in SUBSET CodecKeys : Cardinality(K) <= MaxItems}}

\* Arrays, Sets and Maps inside one another.
CodecNested ==
  { RespArray(<<RespArray(<<Integer(-7), RespArray(<<>>)>>),
                RespMap([k \in {<<"b">>, <<"a">>} |-> RespSet(<<Boolean(TRUE)>>)])>>),
    RespSet(<<RespNullArray, RespSet(<<RespNullBulkString, RespNullBulkString>>)>>),
    RespMap([k \in {<<"a">>} |-> RespMap([j \in {<<"b">>} |-> Double(F64(TRUE, <<1, 2>>, -9))])]),
    RespArray(<<SimpleError(<<"e">>), BulkString(<<"+", "O", "K", "\r", "\n">>)>>) }

CodecValues ==
  CodecScalars \cup {RespArray(xs) : xs \in CodecSeqs} \cup {RespSet(xs) : xs \in CodecSeqs}
    \cup {RespMap(m) : m \in CodecMaps} \cup CodecNested

\* RespFrameCodec::encode(item, dst) on an empty buffer.
CodecEncode ==
  /\ cpc = "idle"
  /\ cbuf' = RespFrameCodec_encode(cv, cbuf)
  /\ cpc' = "encoded"
  /\ UNCHANGED <<cv, cres>>
  /\ UNCHANGED <<storeVars, reqVars, connVars, taskVars>>

\* RespFrame::decode on the buffer.
CodecDecode ==
  /\ cpc = "encoded"
  /\ cres' = RespFrame_decode(cbuf)
  /\ cpc' = "decoded"
  /\ UNCHANGED <<cv, cbuf>>
  /\ UNCHANGED <<storeVars, reqVars, connVars, taskVars>>

\* The buffer is cut to its first n bytes: a strict, non-empty prefix of
\* the encoding has arrived.
CodecTruncate(n) ==
  /\ cpc = "encoded"
  /\ n \in 1..(Len(cbuf) - 1)
  /\ cbuf' = SubSeq(cbuf, 1, n)
  /\ cpc' = "truncated"
  /\ UNCHANGED <<cv, cres>>
  /\ UNCHANGED <<storeVars, reqVars, connVars, taskVars>>

\* RespFrameCodec::decode on the prefix: the outcome, and the buffer as the
\* decoder leaves it.
CodecDecodePart ==
  /\ cpc = "truncated"
  /\ cres' = RespFrameCodec_decode(cbuf)
  /\ cbuf' = RespFrameCodec_decode(cbuf).src
  /\ cpc' = "partial"
  /\ UNCHANGED cv
  /\ UNCHANGED <<storeVars, reqVars, connVars, taskVars>>

\* The remaining bytes of the encoding arrive behind what the buffer holds.
CodecAppend ==
  /\ cpc = "partial"
  /\ cbuf' = cbuf \o SubSeq(RespFrame_encode(cv), Len(cbuf) + 1, Len(RespFrame_encode(cv)))
  /\ cpc' = "appended"
  /\ UNCHANGED <<cv, cres>>
  /\ UNCHANGED <<storeVars, reqVars, connVars, taskVars>>

\* RespFrameCodec::decode again, on the completed buffer.
CodecDecodeRest ==
  /\ cpc = "appended"
  /\ cres' = RespFrameCodec_decode(cbuf)
  /\ cbuf' = RespFrameCodec_decode(cbuf).src
  /\ cpc' = "redecoded"
  /\ UNCHANGED cv
  /\ UNCHANGED <<storeVars, reqVars, connVars, taskVars>>

\* The bytes that arrive behind a whole frame: the first byte of a request,
\* the beginning of a request, a whole frame, bytes that are no frame.
CodecTrailers ==
  { <<"*">>,
    <<"*", "2", "\r", "\n", "$", "3", "\r", "\n", "g">>,
    <<"+", "O", "K", "\r", "\n">>,
    <<"?", "\r", "\n">> }

\* Further bytes arrive behind the encoding before the buffer is decoded.
CodecFollow(t) ==
  /\ cpc = "encoded"
  /\ cbuf' = cbuf \o t
  /\ cpc' = "followed"
  /\ UNCHANGED <<cv, cres>>
  /\ UNCHANGED <<storeVars, reqVars, connVars, taskVars>>

\* RespFrameCodec::decode on the frame and what follows it.
CodecDecodeFirst ==
  /\ cpc = "followed"
  /\ cres' = RespFrameCodec_decode(cbuf)
  /\ cbuf' = RespFrameCodec_decode(cbuf).src
  /\ cpc' = "first"
  /\ UNCHANGED cv
  /\ UNCHANGED <<storeVars, reqVars, connVars, taskVars>>

CodecStart ==
  /\ StoreInit /\ ReqInit /\ ConnInit /\ TaskInit
  /\ cv \in CodecValues
  /\ cbuf = <<>> /\ cres = Incomplete /\ cpc = "idle"

CodecNext ==
  \/ CodecEncode
  \/ CodecDecode
  \/ \E n \in 1..(Len(cbuf) - 1) : CodecTruncate(n)
  \/ CodecDecodePart
  \/ CodecAppend
  \/ CodecDecodeRest
  \/ \E t \in CodecTrailers : CodecFollow(t)
  \/ CodecDecodeFirst

SpecCodec == CodecStart /\ [][CodecNext]_vars

\* C10: the buffer, once decoded, gave Parsed with the value that was
\* encoded and with the whole length of its encoding.
C10_RoundTrip ==
  cpc = "decoded" =>
    /\ cbuf = RespFrame_encode(cv)
    /\ cres.kind = "Parsed"
    /\ cres.frame = cv
    /\ cres.n = Len(cbuf)

\* An Array holding a Map and a nested Array has gone through the codec.
C10_Witness ==
  /\ cpc = "decoded"
  /\ cv.t = "Array"
  /\ \E i \in 1..Len(cv.v) : cv.v[i].t = "Map" /\ DOMAIN cv.v[i].v = {<<"a">>, <<"b">>}
  /\ \E i \in 1..Len(cv.v) : cv.v[i].t = "Array" /\ Len(cv.v[i].v) = 2

\* C11: decoding a strict non-empty prefix of an encoding gives Incomplete
\* (Ok(None) from the codec) and leaves the buffer as it was, wherever the
\* cut falls; with the remaining bytes appended the next decode gives the
\* value and takes the whole buffer.
C11_TruncationSafety ==
  [][/\ (cpc = "truncated" /\ cpc' = "partial")
          => /\ RespFrame_decode(cbuf).kind = "Incomplete"
             /\ cres'.kind = "None"
             /\ cbuf' = cbuf
     /\ (cpc = "appended" /\ cpc' = "redecoded")
          => /\ cbuf = RespFrame_encode(cv)
             /\ cres'.kind = "Some" /\ cres'.frame = cv
             /\ cbuf' = <<>>
    ]_vars

\* A Map of two entries was cut, decoded, completed and decoded again.
C11_Witness ==
  /\ cpc = "redecoded"
  /\ cv.t = "Map" /\ Cardinality(DOMAIN cv.v) = 2
  /\ cres.kind = "Some"

\* The orders in which the keys S can be inserted: each key once.
InsertionOrders(S) ==
  {ks \in [1..Cardinality(S) -> S] : \A i, j \in 1..Cardinality(S) : ks[i] = ks[j] => i = j}

Ascending(ks) == \A i \in 1..(Len(ks) - 1) : str_lt(ks[i], ks[i + 1])

\* C17: the encoding of a Map is the '%' line with the number of entries and
\* then the entries in strictly ascending key order, each as the
\* SimpleString of its key followed by the encoding of its value; the Map
\* built by inserting the same entries in any order encodes to the same
\* bytes.
C17_MapKeyOrder ==
  (cpc = "encoded" /\ cv.t = "Map") =>
    /\ \E ks \in InsertionOrders(DOMAIN cv.v) :
          /\ Ascending(ks)
          /\ cbuf = <<"%">> \o fmt_unsigned(Len(ks)) \o CRLF \o encode_entries(cv.v, ks)
    /\ \A ks \in InsertionOrders(DOMAIN cv.v) :
          RespFrame_encode(RespMap(RespMap_inserted(RespMap_new, cv.v, ks))) = cbuf

\* A Map with the keys "b" and "ab" is encoded; "ab" comes first.
C17_Witness ==
  /\ cpc = "encoded"
  /\ cv.t = "Map" /\ DOMAIN cv.v = {<<"b">>, <<"a", "b">>}
  /\ SubSeq(cbuf, 1, 9) = <<"%", "2", "\r", "\n", "+", "a", "b", "\r", "\n">>

\* C24: when the buffer holds the encoding of a value followed by further
\* bytes, the decoder returns the value and takes exactly the bytes of its
\* encoding from the front of the buffer, the bytes behind them staying as
\* they are; and every decode either returns a frame and takes exactly
\* the bytes of that frame, or returns none and leaves the buffer as it is.
C24_ExactConsumption ==
  [][/\ (cpc = "followed" /\ cpc' = "first") =>
          /\ cres'.kind = "Some" /\ cres'.frame = cv
          /\ Len(cbuf) - Len(cbuf') = Len(RespFrame_encode(cv))
          /\ cbuf' \in CodecTrailers
          /\ cbuf = RespFrame_encode(cv) \o cbuf'
     /\ cpc' \in {"partial", "redecoded", "first"} =>
          IF cres'.kind = "Some"
          THEN cbuf = RespFrame_encode(cres'.frame) \o cbuf'
          ELSE cbuf' = cbuf
    ]_vars

\* A Map of two entries followed by the beginning of a request has been
\* decoded: the beginning of the request is what the buffer holds.
C24_Witness ==
  /\ cpc = "first"
  /\ cv.t = "Map" /\ Cardinality(DOMAIN cv.v) = 2
  /\ cres.kind = "Some" /\ cres.frame = cv
  /\ cbuf = <<"*", "2", "\r", "\n", "$", "3", "\r", "\n", "g">>

\* The encoded Double is in scientific notation: it has an exponent mark.
Scientific(buf) == \E i \in 1..Len(buf) : buf[i] = "e"

\* C18: the encoding of a Double is in scientific notation exactly when the
\* magnitude is at least 1e8, or is below 1e-8 and the number is not zero;
\* every other number, zero included, is in fixed notation; the sign
\* character is written in both notations.
C18_DoubleNotation ==
  (cpc = "encoded" /\ cv.t = "Double") =>
    /\ Scientific(cbuf) <=> (~f64_is_zero(cv.v) /\ (cv.v.exp >= 8 \/ cv.v.exp < -8))
    /\ cbuf[2] \in {"+", "-"}

(***************************************************************************)
(* Claims about the command grammar (specification SpecRequest)            *)
(***************************************************************************)
\* The command tokens Command::try_from selects by, and the number of
\* arguments each command takes.
CommandTokens ==
  { <<"g", "e", "t">>, <<"s", "e", "t">>, <<"h", "g", "e", "t">>, <<"h", "s", "e", "t">>,
    <<"h", "g", "e", "t", "a", "l", "l">> }

Arity(token) ==
  CASE token = <<"g", "e", "t">> -> 1
    [] token = <<"s", "e", "t">> -> 2
    [] token = <<"h", "g", "e", "t">> -> 2
    [] token = <<"h", "s", "e", "t">> -> 3
    [] token = <<"h", "g", "e", "t", "a", "l", "l">> -> 1

\* The first element of the request is a BulkString.
NamedRequest(f) == f.t = "Array" /\ Len(f.v) >= 1 /\ f.v[1].t = "BulkString"

\* C12: a request array whose first element is no BulkString, or is a
\* BulkString that is none of the command tokens, is rejected with
\* InvalidCommand; one whose first element is a command token and whose
\* number of elements is not 1 + the arity of the command is rejected with
\* InvalidArguments.
C12_GrammarRejection ==
  req.t = "Array" =>
    /\ (~NamedRequest(req) \/ req.v[1].v \notin CommandTokens) => ret = Err("InvalidCommand")
    /\ (NamedRequest(req) /\ req.v[1].v \in CommandTokens
          /\ Len(req.v) # 1 + Arity(req.v[1].v))
         => ret = Err("InvalidArguments")

\* A get with one element too many has been rejected with InvalidArguments.
C12_Witness ==
  /\ NamedRequest(req) /\ req.v[1].v = <<"g", "e", "t">> /\ Len(req.v) = 3
  /\ ret = Err("InvalidArguments")

\* The request with its command name in lower case.
LowerName(f) == [f EXCEPT !.v[1].v = to_ascii_lowercase(@)]

\* C13: a request is parsed into the same command as the request with its
\* name in lower case.
C13_NameCaseInsensitive ==
  NamedRequest(req) => Command_try_from_frame(req) = Command_try_from_frame(LowerName(req))

\* A get or set request of the right number of elements.
GetOrSetRequest(f) ==
  /\ NamedRequest(f)
  /\ f.v[1].v \in {<<"g", "e", "t">>, <<"s", "e", "t">>}
  /\ Len(f.v) = 1 + Arity(f.v[1].v)

\* C26: for a get or set request of the right number of elements, a key
\* that is no BulkString is rejected with InvalidArguments, a BulkString
\* key that is not UTF-8 with the Utf8 error, which is neither
\* InvalidArguments nor InvalidCommand; with a UTF-8 BulkString key the
\* request is accepted, a set with its value of whatever variant.
C26_KeyErrors ==
  GetOrSetRequest(req) =>
    LET key == req.v[2]
        parsed == Command_try_from(req.v)
    IN  /\ ret.ok = parsed.ok
        /\ ~parsed.ok => ret = parsed
        /\ key.t # "BulkString" => parsed = Err("InvalidArguments")
        /\ (key.t = "BulkString" /\ \E i \in 1..Len(key.v) : key.v[i] = "xFF") =>
             /\ parsed = Err("Utf8Error")
             /\ parsed \notin {Err("InvalidArguments"), Err("InvalidCommand")}
        /\ (key.t = "BulkString" /\ \A i \in 1..Len(key.v) : key.v[i] # "xFF") =>
             parsed = Ok(IF Len(req.v) = 2 THEN Get(key.v) ELSE Set(key.v, req.v[3]))

\* A get with a key that is not UTF-8 has been rejected with the Utf8 error.
C26_Witness ==
  /\ GetOrSetRequest(req) /\ Len(req.v) = 2
  /\ req.v[2] = BulkString(<<"xFF">>)
  /\ ret = Err("Utf8Error")

(***************************************************************************)
(* The Backend under concurrent calls (src/backend/mod.rs on DashMap).     *)
(* A DashMap keeps its entries in shards, each behind a readers-writer      *)
(* lock: get holds the read lock of the shard of the key while the Ref it   *)
(* returns lives, insert holds the write lock for the insertion, entry      *)
(* holds the write lock while the RefMut lives, and clone copies the        *)
(* shards one after another.  A lock of an inner map is taken and released  *)
(* within one step.  (specification SpecBackend)                           *)
(***************************************************************************)
\* The number of Backend calls the tasks make in all.
MaxCalls == 3

\* The calls: on both keys of both namespaces, with two values and two
\* fields on the key k.
BackendCalls ==
  { Get(<<"k">>), Get(<<"j">>),
    Set(<<"k">>, BulkString(<<"x">>)), Set(<<"k">>, BulkString(<<"y">>)),
    Set(<<"j">>, BulkString(<<"x">>)),
    HGet(<<"k">>, <<"f">>),
    HSet(<<"k">>, <<"f">>, BulkString(<<"x">>)), HSet(<<"k">>, <<"g">>, BulkString(<<"y">>)),
    HSet(<<"j">>, <<"f">>, BulkString(<<"x">>)),
    HGetAll(<<"k">>) }

\* The lock of the shard of `key` in the scalar map, and in the hash map.
MapLock(key) == <<"map", shard[key]>>

HMapLock(key) == <<"hmap", shard[key]>>

\* A lock granted whatever it is held for.
can_lock_unguarded(l, mode) == TRUE

\* RwLock::write is granted when no task holds the lock, RwLock::read when
\* no task holds it for write.
can_lock(l, mode) == IF mode = "write" THEN l.w = {} /\ l.r = {} ELSE l.w = {}

\* The write guard dropped as soon as it is taken: the lock is not kept.
lock_write_dropped(l, t) == rw

lock_write(l, t) == [rw EXCEPT ![l].w = @ \cup {t}]

lock_read(l, t) == [rw EXCEPT ![l].r = @ \cup {t}]

\* The guard kept for ever (mem::forget of the Ref).
unlock_never(l, t) == rw

\* The guard (Ref, RefMut) is dropped.
unlock(l, t) == [rw EXCEPT ![l].w = @ \ {t}, ![l].r = @ \ {t}]

\* entry(key) followed by insert(V::default()): a new inner map on every
\* call.
DashMap_entry_insert_default(m, k) == DashMap_insert(m, k, DashMap_new)

\* entry(key).or_default(): the value of the key, inserted as the default
\* when the key is vacant.
DashMap_entry_or_default(m, k) ==
  IF k \in DOMAIN m THEN m ELSE DashMap_insert(m, k, DashMap_new)

\* The entries of the inner map `m` that are in shard `i`.
shard_entries(m, i) == [f \in {g \in DOMAIN m : shard[g] = i} |-> m[f]]

\* The two maps joined; their keys are different.
extend(a, b) == [f \in DOMAIN a \cup DOMAIN b |-> IF f \in DOMAIN a THEN a[f] ELSE b[f]]

\* The task is in a call of hgetall.
InHGetAll(t) == tpc[t] # "idle" /\ top[t].name = "HGetAll"

\* The history of what hgetall would return, for the tasks in hgetall, when
\* the hash map becomes `h`.
SeenAfter(h) ==
  [t \in Tasks |->
     IF InHGetAll(t) THEN seen[t] \cup {Backend_hgetall(h, top[t].key)} ELSE seen[t]]

\* A task calls the Backend.
Call(t, cmd) ==
  /\ tpc[t] = "idle" /\ nops < MaxCalls
  /\ top' = [top EXCEPT ![t] = cmd]
  /\ tpc' = [tpc EXCEPT ![t] = "lock"]
  /\ tret' = [tret EXCEPT ![t] = None]
  /\ tsnap' = [tsnap EXCEPT ![t] = DashMap_new]
  /\ tidx' = [tidx EXCEPT ![t] = 1]
  /\ seen' = [seen EXCEPT ![t] =
                IF cmd.name = "HGetAll" THEN {Backend_hgetall(hmap, cmd.key)} ELSE {}]
  /\ started' = started \cup {cmd}
  /\ nops' = nops + 1
  /\ UNCHANGED <<shard, rw>>
  /\ UNCHANGED <<storeVars, reqVars, connVars, codecVars>>

\* Backend::get, self.map.get(key): the read lock of the shard is taken.
GetLock(t) ==
  /\ tpc[t] = "lock" /\ top[t].name = "Get"
  /\ can_lock(rw[MapLock(top[t].key)], "read")
  /\ rw' = lock_read(MapLock(top[t].key), t)
  /\ tpc' = [tpc EXCEPT ![t] = "locked"]
  /\ UNCHANGED <<shard, top, tret, tsnap, tidx, seen, started, nops>>
  /\ UNCHANGED <<storeVars, reqVars, connVars, codecVars>>

\* Backend::get, .map(|v| v.value().clone()): the value is cloned and the
\* Ref dropped.
GetRead(t) ==
  /\ tpc[t] = "locked" /\ top[t].name = "Get"
  /\ tret' = [tret EXCEPT ![t] = Backend_get(map, top[t].key)]
  /\ rw' = unlock(MapLock(top[t].key), t)
  /\ tpc' = [tpc EXCEPT ![t] = "idle"]
  /\ UNCHANGED <<shard, top, tsnap, tidx, seen, started, nops>>
  /\ UNCHANGED <<storeVars, reqVars, connVars, codecVars>>

\* Backend::set, self.map.insert(key, value): the write lock of the shard
\* is taken.
SetLock(t) ==
  /\ tpc[t] = "lock" /\ top[t].name = "Set"
  /\ can_lock(rw[MapLock(top[t].key)], "write")
  /\ rw' = lock_write(MapLock(top[t].key), t)
  /\ tpc' = [tpc EXCEPT ![t] = "locked"]
  /\ UNCHANGED <<shard, top, tret, tsnap, tidx, seen, started, nops>>
  /\ UNCHANGED <<storeVars, reqVars, connVars, codecVars>>

\* Backend::set: the entry is written and the lock released.
SetInsert(t) ==
  /\ tpc[t] = "locked" /\ top[t].name = "Set"
  /\ map' = Backend_set(map, top[t].key, top[t].value)
  /\ lastSet' = [lastSet EXCEPT ![top[t].key] = Some(top[t].value)]
  /\ rw' = unlock(MapLock(top[t].key), t)
  /\ tpc' = [tpc EXCEPT ![t] = "idle"]
  /\ UNCHANGED <<hmap, lastHSet>>
  /\ UNCHANGED <<shard, top, tret, tsnap, tidx, seen, started, nops>>
  /\ UNCHANGED <<reqVars, connVars, codecVars>>

\* Backend::hget, self.hmap.get(key): the read lock of the shard is taken;
\* for a key that is not present None is returned and the lock released.
HGetLock(t) ==
  /\ tpc[t] = "lock" /\ top[t].name = "HGet"
  /\ can_lock(rw[HMapLock(top[t].key)], "read")
  /\ IF top[t].key \in DOMAIN hmap
     THEN /\ rw' = lock_read(HMapLock(top[t].key), t)
          /\ tpc' = [tpc EXCEPT ![t] = "locked"]
          /\ UNCHANGED tret
     ELSE /\ tret' = [tret EXCEPT ![t] = Backend_hget(hmap, top[t].key, top[t].field)]
          /\ tpc' = [tpc EXCEPT ![t] = "idle"]
          /\ UNCHANGED rw
  /\ UNCHANGED <<shard, top, tsnap, tidx, seen, started, nops>>
  /\ UNCHANGED <<storeVars, reqVars, connVars, codecVars>>

\* Backend::hget, .and_then(|v| v.get(field).map(..)): the field is read in
\* the inner map and the Ref dropped.
HGetRead(t) ==
  /\ tpc[t] = "locked" /\ top[t].name = "HGet"
  /\ tret' = [tret EXCEPT ![t] = Backend_hget(hmap, top[t].key, top[t].field)]
  /\ rw' = unlock(HMapLock(top[t].key), t)
  /\ tpc' = [tpc EXCEPT ![t] = "idle"]
  /\ UNCHANGED <<shard, top, tsnap, tidx, seen, started, nops>>
  /\ UNCHANGED <<storeVars, reqVars, connVars, codecVars>>

\* Backend::hset, self.hmap.entry(key).or_default(): the write lock of the
\* shard is taken and kept, the inner map is created when the key is vacant.
HSetEntry(t) ==
  /\ tpc[t] = "lock" /\ top[t].name = "HSet"
  /\ can_lock(rw[HMapLock(top[t].key)], "write")
  /\ rw' = lock_write(HMapLock(top[t].key), t)
  /\ hmap' = DashMap_entry_or_default(hmap, top[t].key)
  /\ seen' = SeenAfter(hmap')
  /\ tpc' = [tpc EXCEPT ![t] = "locked"]
  /\ UNCHANGED <<map, lastSet, lastHSet>>
  /\ UNCHANGED <<shard, top, tret, tsnap, tidx, started, nops>>
  /\ UNCHANGED <<reqVars, connVars, codecVars>>

\* Backend::hset, hmap.insert(field, value), and the RefMut dropped at the
\* end of the function.
HSetInsert(t) ==
  /\ tpc[t] = "locked" /\ top[t].name = "HSet"
  /\ hmap' = [hmap EXCEPT ![top[t].key] = DashMap_insert(@, top[t].field, top[t].value)]
  /\ lastHSet' = [lastHSet EXCEPT ![<<top[t].key, top[t].field>>] = Some(top[t].value)]
  /\ seen' = SeenAfter(hmap')
  /\ rw' = unlock(HMapLock(top[t].key), t)
  /\ tpc' = [tpc EXCEPT ![t] = "idle"]
  /\ UNCHANGED <<map, lastSet>>
  /\ UNCHANGED <<shard, top, tret, tsnap, tidx, started, nops>>
  /\ UNCHANGED <<reqVars, connVars, codecVars>>

\* Backend::hgetall, self.hmap.get(key): the read lock of the shard is
\* taken; for a key that is not present None is returned.
HGetAllLock(t) ==
  /\ tpc[t] = "lock" /\ top[t].name = "HGetAll"
  /\ can_lock(rw[HMapLock(top[t].key)], "read")
  /\ IF top[t].key \in DOMAIN hmap
     THEN /\ rw' = lock_read(HMapLock(top[t].key), t)
          /\ tpc' = [tpc EXCEPT ![t] = "locked"]
          /\ UNCHANGED tret
     ELSE /\ tret' = [tret EXCEPT ![t] = Backend_hgetall(hmap, top[t].key)]
          /\ tpc' = [tpc EXCEPT ![t] = "idle"]
          /\ UNCHANGED rw
  /\ UNCHANGED <<shard, top, tsnap, tidx, seen, started, nops>>
  /\ UNCHANGED <<storeVars, reqVars, connVars, codecVars>>

\* Backend::hgetall, v.clone(): DashMap::clone copies the next shard of the
\* inner map.
HGetAllCloneShard(t) ==
  /\ tpc[t] = "locked" /\ top[t].name = "HGetAll"
  /\ tidx[t] <= NShards
  /\ tsnap' = [tsnap EXCEPT ![t] = extend(@, shard_entries(hmap[top[t].key], tidx[t]))]
  /\ tidx' = [tidx EXCEPT ![t] = @ + 1]
  /\ UNCHANGED <<shard, rw, tpc, top, tret, seen, started, nops>>
  /\ UNCHANGED <<storeVars, reqVars, connVars, codecVars>>

\* Backend::hgetall returns Some(clone), the Ref dropped.
HGetAllReturn(t) ==
  /\ tpc[t] = "locked" /\ top[t].name = "HGetAll"
  /\ tidx[t] > NShards
  /\ tret' = [tret EXCEPT ![t] = Some(tsnap[t])]
  /\ rw' = unlock(HMapLock(top[t].key), t)
  /\ tpc' = [tpc EXCEPT ![t] = "idle"]
  /\ UNCHANGED <<shard, top, tsnap, tidx, seen, started, nops>>
  /\ UNCHANGED <<storeVars, reqVars, connVars, codecVars>>

\* A step of the call the task is in.
TaskStep(t) ==
  \/ GetLock(t)
  \/ GetRead(t)
  \/ SetLock(t)
  \/ SetInsert(t)
  \/ HGetLock(t)
  \/ HGetRead(t)
  \/ HSetEntry(t)
  \/ HSetInsert(t)
  \/ HGetAllLock(t)
  \/ HGetAllCloneShard(t)
  \/ HGetAllReturn(t)

BackendInit ==
  /\ StoreInit /\ ReqInit /\ ConnInit /\ CodecInit
  /\ shard \in ShardLayouts
  /\ rw = [l \in Locks |-> [w |-> {}, r |-> {}]]
  /\ tpc = [t \in Tasks |-> "idle"]
  /\ top = [t \in Tasks |-> NoCall]
  /\ tret = [t \in Tasks |-> None]
  /\ tsnap = [t \in Tasks |-> DashMap_new]
  /\ tidx = [t \in Tasks |-> 1]
  /\ seen = [t \in Tasks |-> {}]
  /\ started = {}
  /\ nops = 0

BackendNext ==
  \E t \in Tasks :
    \/ \E cmd \in BackendCalls : Call(t, cmd)
    \/ TaskStep(t)

SpecBackend == BackendInit /\ [][BackendNext]_vars

\* The tasks run on the threads of the runtime and a Backend call does not
\* await: a task that can take its next step takes it.
SpecBackendFair == SpecBackend /\ \A t \in Tasks : WF_vars(TaskStep(t))

\* C14: every field written by an hset is present under its key with the
\* value written last, whatever other hset calls ran at the same time, also
\* on a key no call had written before: no inner map is replaced or lost.
C14_NoLostInnerMap ==
  \A k \in Keys, f \in Fields :
    lastHSet[<<k, f>>].some => Backend_hget(hmap, k, f) = lastHSet[<<k, f>>]

\* The only two calls made are hset calls of the two tasks on the key k with
\* different fields; both have returned and both fields are there.
C14_Witness ==
  /\ nops = 2
  /\ \A t \in Tasks : tpc[t] = "idle" /\ top[t].name = "HSet" /\ top[t].key = <<"k">>
  /\ top["t1"].field # top["t2"].field
  /\ DOMAIN hmap[<<"k">>] = Fields

\* C15: what a call of hgetall has returned is what Backend::hgetall gives
\* on the hash map of one moment between the call and the return, and it
\* stays what it is while the task makes no other call.
C15_HGetAllSnapshot ==
  /\ [](\A t \in Tasks : (tpc[t] = "idle" /\ top[t].name = "HGetAll") => tret[t] \in seen[t])
  /\ [][\A t \in Tasks : (tpc[t] = "idle" /\ tpc'[t] = "idle") => tret'[t] = tret[t]]_vars

\* An hgetall has returned the one field the key had while the other task
\* has written a second field since.
C15_Witness ==
  /\ tpc["t1"] = "idle" /\ top["t1"].name = "HGetAll"
  /\ tret["t1"].some /\ DOMAIN tret["t1"].val = {<<"f">>}
  /\ DOMAIN hmap[<<"k">>] = Fields
  /\ shard[<<"g">>] = 2

\* The task holds a shard lock.
Holds(t) == \E l \in Locks : t \in rw[l].w \cup rw[l].r

\* C16: every call made returns; a task in a call that cannot take its next
\* step waits for a lock, and every task that holds a lock can take its next
\* step, so that no task waits for a task that waits.
C16_DeadlockFree ==
  /\ \A t \in Tasks : (tpc[t] # "idle") ~> (tpc[t] = "idle")
  /\ [](\A t \in Tasks :
          /\ Holds(t) => ENABLED TaskStep(t)
          /\ (tpc[t] # "idle" /\ ~ENABLED TaskStep(t)) => \E q \in Tasks \ {t} : Holds(q))

\* A task waits for the write lock of a shard that the other task holds for
\* read.
C16_Witness ==
  /\ tpc["t1"] = "lock" /\ top["t1"].name = "HSet"
  /\ ~ENABLED TaskStep("t1")
  /\ tpc["t2"] = "locked" /\ top["t2"].name = "HGetAll"
  /\ tidx["t2"] = 2

\* A Set call on the key is between its call and its return.
SetInProgress(k) == \E t \in Tasks : tpc[t] # "idle" /\ top[t].name = "Set" /\ top[t].key = k

\* C20: a get that has returned gave None or the value of one of the set
\* calls made on its key; while no set on a key is in progress, get gives the
\* value of the set on it that was serialized last.
C20_LastWriterWins ==
  /\ \A t \in Tasks :
       (tpc[t] = "idle" /\ top[t].name = "Get") =>
         \/ tret[t] = None
         \/ \E c \in started :
              c.name = "Set" /\ c.key = top[t].key /\ tret[t] = Some(c.value)
  /\ \A k \in Keys : ~SetInProgress(k) => Backend_get(map, k) = lastSet[k]

\* The two tasks have set different values on the key k, and a get after
\* them has returned one of the two.
C20_Witness ==
  /\ nops = 3
  /\ \A t \in Tasks : tpc[t] = "idle"
  /\ Set(<<"k">>, BulkString(<<"x">>)) \in started
  /\ Set(<<"k">>, BulkString(<<"y">>)) \in started
  /\ top["t1"] = Get(<<"k">>) /\ tret["t1"] = Some(BulkString(<<"x">>))
  /\ top["t2"].name = "Set"

\* The task has taken a step: it has begun a call or moved on in its call.
Stepped(t) == tpc'[t] # tpc[t] \/ tidx'[t] # tidx[t]

\* C19: every step of a get, hget or hgetall call leaves both maps as they
\* are; every step of a set(k, x) call leaves the hash map and every other
\* scalar key as they are; every step of an hset(k, f, x) call leaves the
\* scalar map, every other field of k and every other hash key as they
\* are, the scalar entry of the same key name included.
C19_StoreFrame ==
  [][/\ \E t \in Tasks : Stepped(t)
     /\ \A t \in Tasks :
          Stepped(t) =>
            LET cmd == top'[t]
            IN  /\ cmd.name \in {"Get", "HGet", "HGetAll"} => (map' = map /\ hmap' = hmap)
                /\ cmd.name = "Set" =>
                     /\ hmap' = hmap
                     /\ \A j \in (DOMAIN map \cup DOMAIN map') \ {cmd.key} :
                          Backend_get(map', j) = Backend_get(map, j)
                /\ cmd.name = "HSet" =>
                     /\ map' = map
                     /\ \A j \in (DOMAIN hmap \cup DOMAIN hmap') \ {cmd.key} :
                          Backend_hgetall(hmap', j) = Backend_hgetall(hmap, j)
                     /\ \A g \in Fields \ {cmd.field} :
                          Backend_hget(hmap', cmd.key, g) = Backend_hget(hmap, cmd.key, g)]_vars

\* Three calls have returned: a set on k, and an hset on each field of k;
\* the scalar entry and the two fields hold the values written.
C19_Witness ==
  /\ nops = 3
  /\ \A t \in Tasks : tpc[t] = "idle"
  /\ started = { Set(<<"k">>, BulkString(<<"x">>)),
                 HSet(<<"k">>, <<"f">>, BulkString(<<"x">>)),
                 HSet(<<"k">>, <<"g">>, BulkString(<<"y">>)) }
  /\ top["t2"].name = "HSet"
  /\ Backend_get(map, <<"k">>) = Some(BulkString(<<"x">>))
  /\ Backend_hget(hmap, <<"k">>, <<"f">>) = Some(BulkString(<<"x">>))
  /\ Backend_hget(hmap, <<"k">>, <<"g">>) = Some(BulkString(<<"y">>))

\* C27: a key of the hash map has no field only while an hset on it holds
\* the write lock of its shard, between creating the inner map and
\* inserting the field; an hget or hgetall that holds the read lock of the
\* shard finds at least one field under its key, and an hgetall that has
\* returned gave None or a mapping of at least one field.
C27_NoEmptyHash ==
  /\ \A k \in DOMAIN hmap :
       hmap[k] = DashMap_new =>
         \E t \in Tasks :
           /\ tpc[t] = "locked" /\ top[t].name = "HSet" /\ top[t].key = k
           /\ rw[HMapLock(k)] = [w |-> {t}, r |-> {}]
  /\ \A t \in Tasks :
       /\ (tpc[t] = "locked" /\ top[t].name \in {"HGet", "HGetAll"}) =>
            (top[t].key \in DOMAIN hmap /\ hmap[top[t].key] # DashMap_new)
       /\ (tpc[t] = "idle" /\ top[t].name = "HGetAll") =>
            (tret[t] = None \/ tret[t].val # DashMap_new)

\* An hset has created the inner map of k and not yet inserted its field;
\* an hgetall on k waits for the lock.
C27_Witness ==
  /\ tpc["t1"] = "locked" /\ top["t1"].name = "HSet" /\ top["t1"].key = <<"k">>
  /\ hmap[<<"k">>] = DashMap_new
  /\ tpc["t2"] = "lock" /\ top["t2"] = HGetAll(<<"k">>)
  /\ ~can_lock(rw[HMapLock(<<"k">>)], "read")

====
